---- MODULE Spec2Model ----
(***************************************************************************)
(* State-machine model of the punch-detection game's core:                 *)
(*   - FusionDetector   (src/detection/fusion_detector.py)                 *)
(*   - BaseDetectionStrategy and its two subclasses                        *)
(*   - EventManager     (src/game/event_manager.py)                        *)
(*   - MotionAnalyzer and PoseAnalyzer (src/detection/accelerometer,       *)
(*     src/detection/pose)                                                 *)
(*   - the ground-truth comparison script                                  *)
(*     (src/evaluation/compare_ground_truth.py)                            *)
(*                                                                         *)
(* Units.  Wall-clock time is counted in ticks of 0.1 s.  Scores are       *)
(* counted in tenths (a score of 1.0 is 10), the fusion weights in tenths  *)
(* (0.7 is 7), so a combined score is counted in hundredths (0.2 is 20).   *)
(* The analyzers count finer: accelerations in hundredths of m/s^2,        *)
(* landmark coordinates in hundredths of the image size, and an analyzer   *)
(* score s stands for s / SCORE_ONE.                                       *)
(***************************************************************************)
EXTENDS Integers, Sequences, FiniteSets, TLC

(***************************************************************************)
(* Bounds of the model.                                                    *)
(***************************************************************************)
\* the wall clock (time.time()) when the detector is constructed, in ticks
StartTime == 5
\* number of ticks the clock may advance
MaxTicks == 5
\* longest strategy list the detector is given
MaxStrategies == 2

(***************************************************************************)
(* Program constants (src/detection/detection_config.py).                  *)
(***************************************************************************)
VISUAL_PUNCH_THRESHOLD == 3
ACCEL_WEIGHT == 7
VISUAL_WEIGHT == 3
MINIMUM_COMBINED_SCORE == 20
PUNCH_TRIGGER_ACCEL_THRESHOLD == 3
PUNCH_COOLDOWN == 5

(***************************************************************************)
(* Strategy objects.  One instance of each strategy class; the name of a   *)
(* strategy is its class name (BaseDetectionStrategy.get_strategy_name).   *)
(***************************************************************************)
Strategies == {"AccelerometerStrategy", "PoseStrategy"}

get_strategy_name(s) == s

\* Python's None for an optional result is the empty sequence; a result r is <<r>>.
None == <<>>

Some(r) == <<r>>

\* the results handed to update_results: score in tenths, and the is_confident flag
Results ==
    { [score |-> 0,  is_confident |-> FALSE],
      [score |-> 3,  is_confident |-> FALSE],
      [score |-> 3,  is_confident |-> TRUE],
      [score |-> 10, is_confident |-> FALSE] }

VARIABLES
    now,              \* time.time(), in ticks
    strategies,       \* FusionDetector.strategies: list of strategy objects
    is_active,        \* BaseDetectionStrategy.is_active, per strategy object
    current_results,  \* BaseDetectionStrategy.current_results, per strategy object
    last_punch_time,  \* FusionDetector.last_punch_time
    ret,              \* the value the call just made returned (NoReturn: nothing, None)
    lastTrue,         \* history: clock of the last detect_punch that returned True (-1: none)
    punchNo,          \* history: detect_punch calls that returned True since the last
                      \* reset_cooldown (since construction if none), counted up to 2
    stale,            \* history, per strategy object: it holds a result and has been
                      \* deactivated (by a cleanup or a failed setup) since that
                      \* result was stored
    consumed          \* history: detect_punch has returned True since a result was
                      \* stored last

hist == <<lastTrue, punchNo, stale, consumed>>

fusionVars == <<now, strategies, is_active, current_results, last_punch_time, ret, hist>>

VARIABLES
    hooks,            \* EventManager.hooks: event name -> list of (priority, callback)
    regNo,            \* history: number of register_hook calls made so far
    eret,             \* the value the EventManager call just made returned
    calls             \* history: the handler invocations of that call, in order

eventVars == <<hooks, regNo, eret, calls>>

VARIABLES
    prev_landmarks,   \* PoseAnalyzer.prev_landmarks of a PoseAnalyzer used on its own
    prev_timestamp,   \* PoseAnalyzer.prev_timestamp of that analyzer, in ticks
    analyses          \* the last two analyzer calls made: input and what came back

analyzerVars == <<prev_landmarks, prev_timestamp, analyses>>

VARIABLES
    accel_strategy,      \* the AccelerometerStrategy object: its fields
    pose_strategy,       \* the PoseStrategy object: its fields
    sensor_queue,        \* AccelerometerStrategy.sensor_queue, a queue.Queue
    sensor_data_buffer,  \* AccelerometerStrategy.sensor_data_buffer, a deque
    server_thread,       \* SensorServer.server_thread of the server made last
    serving,             \* some server thread has bound the port and is serving
    drain,               \* where the main loop is in process_sensor_queue (None: outside)
    pushNo,              \* history: number of samples queued so far
    dequeued,            \* history: the samples taken off the queue, in order
    analyzed,            \* history: the samples handed to _analyze_sensor_data, in order
    lastDrain,           \* history: the process_sensor_queue call that ended last
    frameNo,             \* history: number of process_frame calls so far
    pframe               \* history: the process_frame call just made

queueVars == <<sensor_queue, sensor_data_buffer, drain, pushNo, dequeued, analyzed, lastDrain>>

strategyVars ==
    <<accel_strategy, pose_strategy, server_thread, serving, queueVars, frameNo, pframe>>

VARIABLES
    comparison,          \* the run of the comparison script just made (None: none)
    metrics_call,        \* the calculate_metrics call just made on its own (None: none)
    report               \* a run of the script at offset 0 on skewed logs: what its
                         \* report suggests, and the run made with that (None: none)

evaluatorVars == <<comparison, metrics_call, report>>

\* what the operations of one component leave alone
VARIABLES
    wall,                \* time.time() as GameState and RecordingManager read it, in ticks
    game,                \* the GameState object: its fields
    gret,                \* what the GameState call just made returned
    high_before,         \* history: the high score held when the game that was started
                         \* last had not ended yet
    punchesMade,         \* history: number of register_punch calls so far
    gamesStarted         \* history: number of start_game calls so far

gameVars == <<game, gret, high_before, punchesMade, gamesStarted>>

VARIABLES
    recorder,            \* the RecordingManager object: its fields
    files,               \* detections.jsonl of each session directory: its lines
    rret,                \* what the RecordingManager call just made returned
    received,            \* history: the punch_detected events handled since the
                         \* recording was started last, in order
    dropped,             \* history: the events handled while nothing was recorded
    evNo,                \* history: number of punch_detected events so far
    startsMade           \* history: number of start_recording calls so far

recorderVars == <<recorder, files, rret, received, dropped, evNo, startsMade>>

\* what the objects of the other sections are made of
notFusion == <<eventVars, analyzerVars, strategyVars, evaluatorVars, wall, gameVars, recorderVars>>

notEvents == <<fusionVars, analyzerVars, strategyVars, evaluatorVars, wall, gameVars, recorderVars>>

notAnalyzers == <<fusionVars, eventVars, strategyVars, evaluatorVars, wall, gameVars, recorderVars>>

notStrategies == <<fusionVars, eventVars, analyzerVars, evaluatorVars, wall, gameVars, recorderVars>>

notEvaluator == <<fusionVars, eventVars, analyzerVars, strategyVars, wall, gameVars, recorderVars>>

notGameOrRecorder == <<fusionVars, eventVars, analyzerVars, strategyVars, evaluatorVars>>

notGame == <<notGameOrRecorder, recorderVars>>

notRecorder == <<notGameOrRecorder, gameVars>>

vars ==
    <<fusionVars, eventVars, analyzerVars, strategyVars, evaluatorVars, wall, gameVars,
      recorderVars>>

(***************************************************************************)
(* FusionDetector                                                          *)
(***************************************************************************)
\* FusionDetector.__init__ leaves the legacy analyzers unset (None)
motion_analyzer == FALSE

pose_analyzer == FALSE

\* result.get('score', 0) if result else 0
ScoreOf(result) == IF result = None THEN 0 ELSE result[1].score

\* a slip in is_strategy_active: every strategy reported as active
is_strategy_active_Always(s) == TRUE

\* BaseDetectionStrategy.is_strategy_active
is_strategy_active(s) == is_active[s]

get_current_results(s) == current_results[s]

\* The loop of detect_punch over self.strategies, from position i on.  acc holds
\* strategy_results (as name/result pairs), accel_score and visual_score, and the
\* strategy objects whose get_current_results was called (read).
RECURSIVE CollectFrom(_, _)
CollectFrom(i, acc) ==
    IF i > Len(strategies) THEN acc
    ELSE LET s == strategies[i]
             result == get_current_results(s)
             name == get_strategy_name(s)
         IN  IF is_strategy_active(s)
             THEN CollectFrom(i + 1,
                    [read |-> acc.read \cup {s},
                     strategy_results |->
                        {p \in acc.strategy_results : p[1] # name} \cup {<<name, result>>},
                     accel_score |->
                        IF name = "AccelerometerStrategy" THEN ScoreOf(result)
                        ELSE acc.accel_score,
                     visual_score |->
                        IF name = "AccelerometerStrategy" THEN acc.visual_score
                        ELSE IF name = "PoseStrategy" THEN ScoreOf(result)
                        ELSE acc.visual_score])
             ELSE CollectFrom(i + 1, acc)

Collect ==
    CollectFrom(1, [read |-> {}, strategy_results |-> {}, accel_score |-> 0, visual_score |-> 0])

\* combined_score = accel_score * ACCEL_WEIGHT + visual_score * VISUAL_WEIGHT
CombinedScore(accel_score, visual_score) ==
    accel_score * ACCEL_WEIGHT + visual_score * VISUAL_WEIGHT

\* FusionDetector._is_punch_detected
IsPunchDetected(accel_score, visual_score, combined_score) ==
    LET high_accel == accel_score > PUNCH_TRIGGER_ACCEL_THRESHOLD
        high_visual == visual_score > VISUAL_PUNCH_THRESHOLD
        sufficient_combined == combined_score > MINIMUM_COMBINED_SCORE
    IN  (high_accel \/ high_visual) /\ sufficient_combined

\* a slip in the cooldown test: the comparison turned round
InCooldown_Inverted(current_time) == current_time - last_punch_time > PUNCH_COOLDOWN

\* the cooldown test at the head of detect_punch
InCooldown(current_time) == current_time - last_punch_time < PUNCH_COOLDOWN

\* the return value of a FusionDetector call (for remove_strategy the flag is its
\* boolean result), with the strategy objects the call read results from
Ret(op, flag, score, metrics, read) ==
    [op |-> op, is_punch |-> flag, combined_score |-> score, metrics |-> metrics,
     read |-> read]

\* the empty metrics dictionary {}
EmptyMetrics == <<>>

\* the call just made returned None, or no call was just made
NoReturn == Ret("none", FALSE, 0, EmptyMetrics, {})

FusionInit ==
    /\ now = StartTime
    /\ strategies = <<>>
    /\ is_active = [s \in Strategies |-> FALSE]
    /\ current_results = [s \in Strategies |-> None]
    /\ last_punch_time = 0
    /\ ret = NoReturn
    /\ lastTrue = -1
    /\ punchNo = 0
    /\ stale = [s \in Strategies |-> FALSE]
    /\ consumed = FALSE

\* the wall clock advances
Tick ==
    /\ now < StartTime + MaxTicks
    /\ now' = now + 1
    /\ ret' = NoReturn
    /\ UNCHANGED <<strategies, is_active, current_results, last_punch_time, hist>>
    /\ UNCHANGED notFusion

\* FusionDetector.add_strategy
add_strategy(s) ==
    /\ Len(strategies) < MaxStrategies
    /\ strategies' = Append(strategies, s)
    /\ ret' = NoReturn
    /\ UNCHANGED <<now, is_active, current_results, last_punch_time, hist>>
    /\ UNCHANGED notFusion

\* list.remove: drop the first occurrence of s
RemoveFirst(seq, s) ==
    LET i == CHOOSE k \in 1..Len(seq) : seq[k] = s /\ \A j \in 1..(k - 1) : seq[j] # s
    IN  SubSeq(seq, 1, i - 1) \o SubSeq(seq, i + 1, Len(seq))

\* FusionDetector.remove_strategy
remove_strategy(s) ==
    /\ IF \E k \in 1..Len(strategies) : strategies[k] = s
       THEN /\ strategies' = RemoveFirst(strategies, s)
            /\ ret' = Ret("remove_strategy", TRUE, 0, EmptyMetrics, {})
       ELSE /\ strategies' = strategies
            /\ ret' = Ret("remove_strategy", FALSE, 0, EmptyMetrics, {})
    /\ UNCHANGED <<now, is_active, current_results, last_punch_time, hist>>
    /\ UNCHANGED notFusion

\* BaseDetectionStrategy.update_results, as its two callers reach it: process_sensor_queue
\* and process_frame return at once when the strategy is not active
update_results(s, results) ==
    /\ is_strategy_active(s)
    /\ current_results' = [current_results EXCEPT ![s] = Some(results)]
    /\ ret' = NoReturn
    /\ stale' = [stale EXCEPT ![s] = FALSE]
    /\ consumed' = FALSE
    /\ UNCHANGED <<now, strategies, is_active, last_punch_time, lastTrue, punchNo>>
    /\ UNCHANGED notFusion

\* FusionDetector.initialize_strategies: the 'setup' event reaches the setup hook of
\* every strategy object; a hook that fails catches the error and deactivates.
initialize_strategies(outcome) ==
    /\ is_active' = [s \in Strategies |-> outcome[s] = "ok"]
    /\ ret' = NoReturn
    /\ stale' = [s \in Strategies |->
                    IF outcome[s] = "ok" THEN stale[s] ELSE current_results[s] # None]
    /\ UNCHANGED <<now, strategies, current_results, last_punch_time, lastTrue, punchNo,
                   consumed>>
    /\ UNCHANGED notFusion

\* FusionDetector.cleanup_strategies: the 'cleanup' event reaches cleanup_server and
\* cleanup_mediapipe, which deactivate and clear their own latest_* fields.
cleanup_strategies ==
    /\ is_active' = [s \in Strategies |-> FALSE]
    /\ ret' = NoReturn
    /\ stale' = [s \in Strategies |-> current_results[s] # None]
    /\ UNCHANGED <<now, strategies, current_results, last_punch_time, lastTrue, punchNo,
                   consumed>>
    /\ UNCHANGED notFusion

\* FusionDetector.reset_cooldown
reset_cooldown ==
    /\ last_punch_time' = 0
    /\ punchNo' = 0
    /\ ret' = NoReturn
    /\ UNCHANGED <<now, strategies, is_active, current_results, lastTrue, stale,
                   consumed>>
    /\ UNCHANGED notFusion

\* a slip in the bookkeeping: the time of the call is kept whatever the decision
Stamped_Always(is_punch, current_time) == current_time

\* if is_punch: self.last_punch_time = current_time
Stamped(is_punch, current_time) == IF is_punch THEN current_time ELSE last_punch_time

\* the value detect_punch returns inside the cooldown: (False, 0, {})
CooldownReturn == Ret("detect_punch", FALSE, 0, EmptyMetrics, {})

\* FusionDetector.detect_punch
detect_punch ==
    /\ UNCHANGED notFusion
    /\ LET current_time == now
       IN
        IF InCooldown(current_time)
        THEN /\ ret' = CooldownReturn
             /\ UNCHANGED <<now, strategies, is_active, current_results,
                            last_punch_time, hist>>
        ELSE LET c == Collect
                 legacy == strategies = <<>> /\ motion_analyzer /\ pose_analyzer
                 accel_score == IF legacy THEN 0 ELSE c.accel_score
                 visual_score == IF legacy THEN 0 ELSE c.visual_score
                 combined_score == CombinedScore(accel_score, visual_score)
                 is_punch == IsPunchDetected(accel_score, visual_score, combined_score)
             IN  /\ last_punch_time' = Stamped(is_punch, current_time)
                 /\ lastTrue' = IF is_punch THEN current_time ELSE lastTrue
                 /\ consumed' = (is_punch \/ consumed)
                 /\ punchNo' = IF is_punch /\ punchNo < 2 THEN punchNo + 1 ELSE punchNo
                 /\ ret' = Ret("detect_punch", is_punch, combined_score,
                               Some([strategy_results |-> c.strategy_results,
                                     combined_score |-> combined_score,
                                     accel_score |-> accel_score,
                                     visual_score |-> visual_score]),
                               c.read)
                 /\ UNCHANGED <<now, strategies, is_active, current_results, stale>>

(***************************************************************************)
(* EventManager                                                            *)
(***************************************************************************)
\* event names used by the callers
Events == {"e1", "e2"}

\* priorities the callers register with (0 is register_hook's default)
Priorities == {0, 10}

\* most register_hook calls in a run
MaxRegs == 3

\* A dictionary is a function from a set of keys.  The contexts and arguments the
\* callers pass: {"y": 10} and {}.
EmptyDict == [k \in {} |-> 0]

Contexts == {[k \in {"y"} |-> 10], EmptyDict}

\* The callbacks.  Each takes one dictionary argument, which Python passes by
\* reference: what a callback writes into it stays written, whether the callback
\* then returns or raises.
\*   "inc"  does arg["x"] = 0, then returns {"y": arg["y"] + 1}
\*          (raises KeyError when "y" is missing, after the write)
\*   "copy" returns {"x": arg.get("y", 0)}    (writes nothing, never raises)
Handlers == {"inc", "copy"}

\* Callbacks that call the manager they are registered with, for the event they are
\* registered for; both return None and leave their argument alone.
\*   "leave" does unregister_hook(event_name, leave)
\*   "join"  does register_hook(event_name, copy), with the default priority
HookHandlers == {"leave", "join"}

\* arg[key] = value, done by a callback on the dictionary it was handed
SetItem(arg, key, value) ==
    [k \in DOMAIN arg \cup {key} |-> IF k = key THEN value ELSE arg[k]]

\* the call raised; left is the argument dictionary as the callback left it
Raised(left) == [raised |-> TRUE, value |-> None, left |-> left]

\* the call returned v; left is the argument dictionary as the callback left it
Returned(v, left) == [raised |-> FALSE, value |-> v, left |-> left]

\* callback(arg): what the call does
Call(callback, arg) ==
    IF callback = "inc"
    THEN LET written == SetItem(arg, "x", 0)
         IN  IF "y" \in DOMAIN arg
             THEN Returned(Some([k \in {"y"} |-> arg["y"] + 1]), written)
             ELSE Raised(written)
    ELSE IF callback \in HookHandlers THEN Returned(None, arg)
    ELSE Returned(Some([k \in {"x"} |-> IF "y" \in DOMAIN arg THEN arg["y"] ELSE 0]), arg)

\* one entry of a hook list; reg is the number of the register_hook call that made it
Entry(priority, callback, reg) == [priority |-> priority, callback |-> callback, reg |-> reg]

\* self.hooks[event_name] of a defaultdict(list): a missing key is created, empty
HooksWithKey(h, event_name) ==
    IF event_name \in DOMAIN h THEN h
    ELSE [e \in DOMAIN h \cup {event_name} |-> IF e = event_name THEN <<>> ELSE h[e]]

\* a slip in the sort: an unstable order, equal priorities end up newest first
SortByPriorityDesc_TiesReversed(list) ==
    LET RECURSIVE Ins(_, _)
        Ins(sorted, i) ==
            IF i > Len(list) THEN sorted
            ELSE LET n == Cardinality({j \in 1..Len(sorted) :
                                          sorted[j].priority > list[i].priority})
                 IN  Ins(SubSeq(sorted, 1, n) \o <<list[i]>>
                           \o SubSeq(sorted, n + 1, Len(sorted)), i + 1)
    IN  Ins(<<>>, 1)

\* list.sort(key=lambda x: x[0], reverse=True): a stable sort, descending by
\* priority; entries of equal priority keep their relative order
SortByPriorityDesc(list) ==
    LET RECURSIVE Ins(_, _)
        Ins(sorted, i) ==
            IF i > Len(list) THEN sorted
            ELSE LET n == Cardinality({j \in 1..Len(sorted) :
                                          sorted[j].priority >= list[i].priority})
                 IN  Ins(SubSeq(sorted, 1, n) \o <<list[i]>>
                           \o SubSeq(sorted, n + 1, Len(sorted)), i + 1)
    IN  Ins(<<>>, 1)

\* the return value of an EventManager call
ERet(op, event_name, value) == [op |-> op, event |-> event_name, value |-> value]

\* the call just made returned None, or no call was just made
ENoReturn == ERet("none", "", FALSE)

EventInit ==
    /\ hooks = [e \in {} |-> <<>>]
    /\ regNo = 0
    /\ eret = ENoReturn
    /\ calls = <<>>

\* the body of register_hook: the hooks after the append and the sort; reg numbers
\* the call
AfterRegister(h, event_name, callback, priority, reg) ==
    LET withKey == HooksWithKey(h, event_name)
        appended == Append(withKey[event_name], Entry(priority, callback, reg))
    IN  [withKey EXCEPT ![event_name] = SortByPriorityDesc(appended)]

\* EventManager.register_hook
register_hook(event_name, callback, priority) ==
    /\ regNo < MaxRegs
    /\ regNo' = regNo + 1
    /\ hooks' = AfterRegister(hooks, event_name, callback, priority, regNo + 1)
    /\ eret' = ENoReturn
    /\ calls' = <<>>
    /\ UNCHANGED notEvents

\* the value unregister_hook hands back, kept with the callback it was called with
Unregistered(callback, removed) == [callback |-> callback, removed |-> removed]

\* the positions of the entries of list whose callback equals callback (cb == callback)
Matches(list, callback) == {i \in 1..Len(list) : list[i].callback = callback}

\* a slip in the scan: the last matching entry is taken instead of the first
FirstMatch_Last(list, callback) ==
    CHOOSE k \in Matches(list, callback) : \A j \in Matches(list, callback) : k >= j

\* the scan of unregister_hook: enumerate from the front, stop at the first match
FirstMatch(list, callback) ==
    CHOOSE k \in Matches(list, callback) : \A j \in Matches(list, callback) : k <= j

\* the body of unregister_hook: the hooks after the scan and the pop
AfterUnregister(h, event_name, callback) ==
    IF event_name \notin DOMAIN h \/ Matches(h[event_name], callback) = {} THEN h
    ELSE LET list == h[event_name]
             i == FirstMatch(list, callback)
         IN  [h EXCEPT ![event_name] =
                 SubSeq(list, 1, i - 1) \o SubSeq(list, i + 1, Len(list))]

\* EventManager.unregister_hook
unregister_hook(event_name, callback) ==
    /\ IF event_name \notin DOMAIN hooks
       THEN /\ hooks' = hooks
            /\ eret' = ERet("unregister_hook", event_name, Unregistered(callback, FALSE))
       ELSE LET list == hooks[event_name]
            IN  IF Matches(list, callback) = {}
                THEN /\ hooks' = hooks
                     /\ eret' = ERet("unregister_hook", event_name,
                                     Unregistered(callback, FALSE))
                ELSE /\ hooks' = AfterUnregister(hooks, event_name, callback)
                     /\ eret' = ERet("unregister_hook", event_name,
                                     Unregistered(callback, TRUE))
    /\ calls' = <<>>
    /\ UNCHANGED <<regNo, notEvents>>

\* a slip in the error branch of trigger_event: the failed call leaves no entry
CollectResult_DropFailed(results, outcome) ==
    IF outcome.raised THEN results ELSE Append(results, outcome.value)

\* the try/except of trigger_event: the return value is appended, None for a call
\* that raised
CollectResult(results, outcome) ==
    IF outcome.raised THEN Append(results, None) ELSE Append(results, outcome.value)

\* the record kept of one handler invocation
Invocation(entry, arg, outcome) ==
    [callback |-> entry.callback, reg |-> entry.reg, seen |-> arg,
     raised |-> outcome.raised, value |-> outcome.value, left |-> outcome.left]

\* what a callback called in a dispatch for event_name does to the manager: the
\* hooks and the number of register_hook calls after it
ManagerAfter(callback, event_name, h, reg) ==
    CASE callback = "leave" ->
            [hooks |-> AfterUnregister(h, event_name, "leave"), regNo |-> reg]
      [] callback = "join" ->
            [hooks |-> AfterRegister(h, event_name, "copy", 0, reg + 1), regNo |-> reg + 1]
      [] OTHER -> [hooks |-> h, regNo |-> reg]

\* the loop of trigger_event over the hook list, from position i on; every callback
\* is handed the same argument object.  The iterator walks the list object itself:
\* it keeps a position and stops when the position is past the end of the list as
\* the callbacks have left it.
RECURSIVE DispatchFrom(_, _, _, _)
DispatchFrom(event_name, i, arg, acc) ==
    LET list == acc.hooks[event_name]
    IN  IF i > Len(list) THEN acc
        ELSE LET outcome == Call(list[i].callback, arg)
                 after == ManagerAfter(list[i].callback, event_name, acc.hooks, acc.regNo)
             IN  DispatchFrom(event_name, i + 1, outcome.left,
                    [results |-> CollectResult(acc.results, outcome),
                     calls |-> Append(acc.calls, Invocation(list[i], arg, outcome)),
                     hooks |-> after.hooks,
                     regNo |-> after.regNo])

\* EventManager.trigger_event
trigger_event(event_name, arg) ==
    LET withKey == HooksWithKey(hooks, event_name)
        done == DispatchFrom(event_name, 1, arg,
                    [results |-> <<>>, calls |-> <<>>, hooks |-> withKey, regNo |-> regNo])
    IN  /\ hooks' = done.hooks
        /\ regNo' = done.regNo
        /\ eret' = ERet("trigger_event", event_name, done.results)
        /\ calls' = done.calls
        /\ UNCHANGED notEvents

\* a slip in the merge: keys already in the context keep their old value
dict_update_KeepOld(context, result) ==
    [k \in DOMAIN context \cup DOMAIN result |->
        IF k \in DOMAIN context THEN context[k] ELSE result[k]]

\* context.update(result): key-wise overwrite
dict_update(context, result) ==
    [k \in DOMAIN context \cup DOMAIN result |->
        IF k \in DOMAIN result THEN result[k] ELSE context[k]]

\* isinstance(result, dict), for the value a call returned
IsDict(value) == value # None

\* the loop of trigger_event_chain over the hook list, from position i on; the
\* callback is handed the context dictionary itself, not a copy
RECURSIVE ChainFrom(_, _, _)
ChainFrom(list, i, acc) ==
    IF i > Len(list) THEN acc
    ELSE LET outcome == Call(list[i].callback, acc.context)
         IN  ChainFrom(list, i + 1,
                [context |-> IF ~outcome.raised /\ IsDict(outcome.value)
                             THEN dict_update(outcome.left, outcome.value[1])
                             ELSE outcome.left,
                 calls |-> Append(acc.calls, Invocation(list[i], acc.context, outcome))])

\* EventManager.trigger_event_chain
trigger_event_chain(event_name, initial_context) ==
    /\ hooks' = HooksWithKey(hooks, event_name)
    /\ LET done == ChainFrom(hooks'[event_name], 1,
                             [context |-> initial_context, calls |-> <<>>])
       IN  /\ eret' = ERet("trigger_event_chain", event_name,
                           [initial |-> initial_context, final |-> done.context])
           /\ calls' = done.calls
    /\ UNCHANGED <<regNo, notEvents>>

\* EventManager.has_listeners
has_listeners(event_name) ==
    /\ hooks' = HooksWithKey(hooks, event_name)
    /\ eret' = ERet("has_listeners", event_name, Len(hooks'[event_name]) > 0)
    /\ calls' = <<>>
    /\ UNCHANGED <<regNo, notEvents>>

\* EventManager.get_event_names
get_event_names == DOMAIN hooks

\* EventManager.clear_event
clear_event(event_name) ==
    /\ hooks' = IF event_name \in DOMAIN hooks
                THEN [e \in DOMAIN hooks \ {event_name} |-> hooks[e]]
                ELSE hooks
    /\ eret' = ENoReturn
    /\ calls' = <<>>
    /\ UNCHANGED <<regNo, notEvents>>

\* EventManager.clear_all
clear_all ==
    /\ hooks' = [e \in {} |-> <<>>]
    /\ eret' = ENoReturn
    /\ calls' = <<>>
    /\ UNCHANGED <<regNo, notEvents>>

(***************************************************************************)
(* MotionAnalyzer                                                          *)
(***************************************************************************)
\* detection_config.py, in hundredths of m/s^2
ACCEL_PUNCH_THRESHOLD == 2000

ACCEL_SCORING_MAX == 4000

\* the 9.81 m/s^2 analyze_accelerometer_punch takes off the magnitude
GRAVITY == 981

\* the score 1.0
SCORE_ONE == 100000

\* A field of a sample as it comes out of the JSON message: a number, or something
\* that is no number (a string).
Num(v) == <<"num", v>>

NotANumber == <<"str">>

IsNumber(field) == field[1] = "num"

\* the x readings of the samples, in hundredths of m/s^2 (y and z are left out of the
\* sample, which analyze_accelerometer_punch reads as 0, so the magnitude is |x|)
AccelValues == {0, 981, 2980, 2981, 2982, 3981, -3981, 4980, 4981, 5981}

\* sensor_data as handed to analyze_accelerometer_punch: nothing (None, or {}),
\* {"x": number}, {"x": "..."} and a sample without readings, {"timestamp": 1}
SensorInputs ==
    {None} \cup {[x |-> Num(v)] : v \in AccelValues}
           \cup {[x |-> NotANumber], [timestamp |-> Num(1)]}

\* d.get(key, default)
Get(d, key, default) == IF key \in DOMAIN d THEN d[key] ELSE default

Abs(n) == IF n < 0 THEN -n ELSE n

Min(a, b) == IF a <= b THEN a ELSE b

Max(a, b) == IF a >= b THEN a ELSE b

\* what an analyzer hands back: (punch_score, metrics); raised says that the call
\* ended in an exception instead
Analysis(score, metrics) == [raised |-> FALSE, score |-> score, metrics |-> metrics]

Failure == [raised |-> TRUE, score |-> 0, metrics |-> EmptyMetrics]

\* a slip in the handler: the exception is let through
CatchAll_Rethrow(attempt) == attempt

\* try: ... except Exception: return 0, {}
CatchAll(attempt) == IF attempt.raised THEN Analysis(0, EmptyMetrics) ELSE attempt

\* a slip in the comparison: a magnitude at the threshold already scores
PunchScore_AtThreshold(magnitude_no_gravity, accel_punch_threshold) ==
    IF magnitude_no_gravity >= accel_punch_threshold
    THEN Min((magnitude_no_gravity * SCORE_ONE) \div ACCEL_SCORING_MAX, SCORE_ONE)
    ELSE 0

\* punch_score = 0; if magnitude_no_gravity > self.accel_punch_threshold:
\*     punch_score = min(magnitude_no_gravity / ACCEL_SCORING_MAX, 1.0)
PunchScore(magnitude_no_gravity, accel_punch_threshold) ==
    IF magnitude_no_gravity > accel_punch_threshold
    THEN Min((magnitude_no_gravity * SCORE_ONE) \div ACCEL_SCORING_MAX, SCORE_ONE)
    ELSE 0

\* the try block of analyze_accelerometer_punch; x**2 raises TypeError for a field
\* that is no number
MotionTry(sensor_data, accel_punch_threshold) ==
    LET x == Get(sensor_data, "x", Num(0))
        y == Get(sensor_data, "y", Num(0))
        z == Get(sensor_data, "z", Num(0))
    IN  IF ~(IsNumber(x) /\ IsNumber(y) /\ IsNumber(z)) THEN Failure
        ELSE LET square == x[2] * x[2] + y[2] * y[2] + z[2] * z[2]
                 \* math.sqrt, to the hundredth below
                 magnitude == CHOOSE r \in Max(Abs(x[2]), Max(Abs(y[2]), Abs(z[2])))
                                            ..(Abs(x[2]) + Abs(y[2]) + Abs(z[2])) :
                                  r * r <= square /\ square < (r + 1) * (r + 1)
                 magnitude_no_gravity == Abs(magnitude - GRAVITY)
                 punch_score == PunchScore(magnitude_no_gravity, accel_punch_threshold)
             IN  Analysis(punch_score,
                          [magnitude |-> magnitude,
                           magnitude_no_gravity |-> magnitude_no_gravity,
                           x |-> x[2], y |-> y[2], z |-> z[2],
                           punch_score |-> punch_score])

\* MotionAnalyzer.analyze_accelerometer_punch, of an analyzer constructed with
\* accel_punch_threshold
analyze_accelerometer_punch(sensor_data, accel_punch_threshold) ==
    IF sensor_data = None THEN Analysis(0, EmptyMetrics)
    ELSE CatchAll(MotionTry(sensor_data, accel_punch_threshold))

(***************************************************************************)
(* PoseAnalyzer                                                            *)
(***************************************************************************)
\* detection_config.py: weights and multipliers in tenths, the shoulder width in
\* hundredths of the image width, the velocity in tenths of image widths per second
POSE_ARM_EXTENSION_WEIGHT == 8

POSE_FORWARD_MOVEMENT_WEIGHT == 2

POSE_SCORE_MULTIPLIER == 20

PUNCH_VELOCITY_THRESHOLD == 20

FRONT_FACING_SHOULDER_THRESHOLD == 30

FRONT_VELOCITY_MULTIPLIER == 10

SIDE_FORWARD_MULTIPLIER == 12

\* the landmarks the analyzer looks up, by their mp_pose.PoseLandmark names
KeyLandmarks ==
    {"LEFT_WRIST", "RIGHT_WRIST", "LEFT_SHOULDER", "RIGHT_SHOULDER",
     "LEFT_ELBOW", "RIGHT_ELBOW"}

\* one landmark, coordinates in hundredths
Landmark(x, y, z) == [x |-> x, y |-> y, z |-> z]

\* A landmark list with the nose, the shoulders and the wrists at the given x; every
\* landmark at the same height and depth, the elbows at the shoulders.
Frame(nose, left_shoulder, right_shoulder, left_wrist, right_wrist) ==
    [name \in KeyLandmarks \cup {"NOSE"} |->
        Landmark(CASE name = "NOSE" -> nose
                   [] name \in {"LEFT_SHOULDER", "LEFT_ELBOW"} -> left_shoulder
                   [] name \in {"RIGHT_SHOULDER", "RIGHT_ELBOW"} -> right_shoulder
                   [] name = "LEFT_WRIST" -> left_wrist
                   [] name = "RIGHT_WRIST" -> right_wrist,
                 50, 0)]

\* facing the camera, hands at the shoulders
GuardFrame == Frame(50, 70, 30, 72, 28)

\* facing the camera, left arm stretched out sideways
JabFrame == Frame(50, 70, 30, 95, 28)

\* seen from the side, hands at the shoulders
SideGuardFrame == Frame(60, 50, 52, 52, 54)

\* seen from the side, left arm stretched forward
SideJabFrame == Frame(60, 50, 52, 80, 54)

\* a list that ends before the elbows and wrists: landmarks[15] raises IndexError
ShortFrame ==
    [name \in {"NOSE", "LEFT_SHOULDER", "RIGHT_SHOULDER"} |-> GuardFrame[name]]

GoodFrames == {GuardFrame, JabFrame, SideGuardFrame, SideJabFrame}

\* landmarks as handed to analyze_pose_punch: nothing (None or an empty list), a
\* full list, a list that is too short
PoseInputs == {None} \cup GoodFrames \cup {ShortFrame}

\* PoseAnalyzer.detect_orientation
detect_orientation(landmarks) ==
    IF ~({"LEFT_SHOULDER", "RIGHT_SHOULDER", "NOSE"} \subseteq DOMAIN landmarks)
    THEN "front"
    ELSE LET left_shoulder == landmarks["LEFT_SHOULDER"]
             right_shoulder == landmarks["RIGHT_SHOULDER"]
             nose == landmarks["NOSE"]
             shoulder_width == Abs(left_shoulder.x - right_shoulder.x)
             \* twice nose_offset, the shoulder centre being (left + right) / 2
             nose_offset2 == Abs(2 * nose.x - (left_shoulder.x + right_shoulder.x))
             shoulder_z_diff == Abs(left_shoulder.z - right_shoulder.z)
             front_score ==
                 (IF shoulder_width > FRONT_FACING_SHOULDER_THRESHOLD THEN 2
                  ELSE IF 10 * shoulder_width > FRONT_FACING_SHOULDER_THRESHOLD * 7
                       THEN 1 ELSE 0)
                 + (IF 10 * nose_offset2 < 2 * shoulder_width * 3 THEN 1 ELSE 0)
                 + (IF shoulder_z_diff < 10 THEN 1 ELSE 0)
                 + (IF shoulder_width > 8 THEN 1 ELSE 0)
         IN  IF front_score >= 3 THEN "front" ELSE "side"

\* math.sqrt(dx**2 + dy**2), to the hundredth below
Distance(dx, dy) ==
    CHOOSE r \in Max(Abs(dx), Abs(dy))..(Abs(dx) + Abs(dy)) :
        r * r <= dx * dx + dy * dy /\ dx * dx + dy * dy < (r + 1) * (r + 1)

\* a distance of d hundredths covered in time_diff ticks, as a velocity in thousandths
\* of the image width per second
PerSecond(d, time_diff) == (d * 100) \div time_diff

\* min(velocity / PUNCH_VELOCITY_THRESHOLD, 1.0) if velocity > 0 else 0
VelocityComponent(velocity) ==
    IF velocity > 0
    THEN Min((velocity * SCORE_ONE) \div (PUNCH_VELOCITY_THRESHOLD * 100), SCORE_ONE)
    ELSE 0

\* PoseAnalyzer.calculate_movement_velocity; prev is the analyzer's prev_landmarks
\* (a full list, it was stored by a call that succeeded)
calculate_movement_velocity(current_landmarks, current_timestamp, prev, prev_time) ==
    LET left_wrist == current_landmarks["LEFT_WRIST"]
        right_wrist == current_landmarks["RIGHT_WRIST"]
        prev_left_wrist == prev["LEFT_WRIST"]
        prev_right_wrist == prev["RIGHT_WRIST"]
        left_distance == Distance(left_wrist.x - prev_left_wrist.x,
                                  left_wrist.y - prev_left_wrist.y)
        right_distance == Distance(right_wrist.x - prev_right_wrist.x,
                                   right_wrist.y - prev_right_wrist.y)
        time_diff == current_timestamp - prev_time
    IN  IF time_diff <= 0 THEN 0
        ELSE Max(PerSecond(left_distance, time_diff), PerSecond(right_distance, time_diff))

\* PoseAnalyzer._calculate_z_velocity.  The smoothing over the last three values is
\* left out: every landmark of the frames used here has the same depth, so each
\* value and each mean of values is 0.
calculate_z_velocity(current_landmarks, current_time, prev, prev_time) ==
    LET current_left_extension ==
            current_landmarks["LEFT_WRIST"].z - current_landmarks["LEFT_SHOULDER"].z
        current_right_extension ==
            current_landmarks["RIGHT_WRIST"].z - current_landmarks["RIGHT_SHOULDER"].z
        prev_left_extension == prev["LEFT_WRIST"].z - prev["LEFT_SHOULDER"].z
        prev_right_extension == prev["RIGHT_WRIST"].z - prev["RIGHT_SHOULDER"].z
        left_extension_change == Abs(current_left_extension - prev_left_extension)
        right_extension_change == Abs(current_right_extension - prev_right_extension)
        time_diff == current_time - prev_time
    IN  IF time_diff <= 0 THEN 0
        ELSE Max(PerSecond(left_extension_change, time_diff),
                 PerSecond(right_extension_change, time_diff))

\* 1.0 if movement < 0.15 else max(0.3, 1.0 - (movement - 0.15) * 3)
MovementFilter(movement) ==
    IF movement < 15 THEN SCORE_ONE
    ELSE Max((3 * SCORE_ONE) \div 10, SCORE_ONE - (movement - 15) * 3 * (SCORE_ONE \div 100))

\* PoseAnalyzer.analyze_front_facing
analyze_front_facing(landmarks, current_time, prev, prev_time) ==
    LET left_wrist == landmarks["LEFT_WRIST"]
        right_wrist == landmarks["RIGHT_WRIST"]
        left_shoulder == landmarks["LEFT_SHOULDER"]
        right_shoulder == landmarks["RIGHT_SHOULDER"]
        max_lateral == Max(Abs(left_wrist.x - left_shoulder.x),
                           Abs(right_wrist.x - right_shoulder.x))
        max_vertical == Max(Abs(left_wrist.y - left_shoulder.y),
                            Abs(right_wrist.y - right_shoulder.y))
        extension_velocity ==
            IF prev # None THEN calculate_z_velocity(landmarks, current_time, prev[1], prev_time)
            ELSE 0
        movement_filter == Min(MovementFilter(max_lateral), MovementFilter(max_vertical))
        extension_score == VelocityComponent(extension_velocity)
        filtered_score ==
            (((extension_score * movement_filter) \div SCORE_ONE)
                * FRONT_VELOCITY_MULTIPLIER) \div 10
    IN  Min(filtered_score, SCORE_ONE)

\* PoseAnalyzer.analyze_side_facing
analyze_side_facing(landmarks, velocity) ==
    LET left_wrist == landmarks["LEFT_WRIST"]
        right_wrist == landmarks["RIGHT_WRIST"]
        left_shoulder == landmarks["LEFT_SHOULDER"]
        right_shoulder == landmarks["RIGHT_SHOULDER"]
        max_forward == Max(Abs(left_wrist.x - left_shoulder.x),
                           Abs(right_wrist.x - right_shoulder.x))
        max_vertical == Max(Abs(left_wrist.y - left_shoulder.y),
                            Abs(right_wrist.y - right_shoulder.y))
        \* hundredths times tenths, brought to the scale of a score
        position_score == Max(max_forward * SIDE_FORWARD_MULTIPLIER * (SCORE_ONE \div 1000),
                              max_vertical * (SCORE_ONE \div 100))
        velocity_component == VelocityComponent(velocity)
        movement_score == Max((position_score + velocity_component) \div 2,
                              velocity_component)
    IN  Min(movement_score, SCORE_ONE)

\* the try block of analyze_pose_punch; looking up a landmark the list does not
\* hold raises IndexError.  prev and prev_time are the analyzer's prev_landmarks and
\* prev_timestamp, current_timestamp is time.time().
PoseTry(landmarks, current_timestamp, prev, prev_time) ==
    IF ~(KeyLandmarks \subseteq DOMAIN landmarks) THEN Failure
    ELSE LET left_arm_extension ==
                 Abs(landmarks["LEFT_WRIST"].x - landmarks["LEFT_SHOULDER"].x)
             right_arm_extension ==
                 Abs(landmarks["RIGHT_WRIST"].x - landmarks["RIGHT_SHOULDER"].x)
             max_extension == Max(left_arm_extension, right_arm_extension)
             orientation == detect_orientation(landmarks)
             velocity_score ==
                 IF prev # None
                 THEN calculate_movement_velocity(landmarks, current_timestamp,
                                                  prev[1], prev_time)
                 ELSE 0
             movement_score ==
                 IF orientation = "front"
                 THEN analyze_front_facing(landmarks, current_timestamp, prev, prev_time)
                 ELSE analyze_side_facing(landmarks, velocity_score)
             weighted ==
                 max_extension * (SCORE_ONE \div 100) * POSE_ARM_EXTENSION_WEIGHT
                     + movement_score * POSE_FORWARD_MOVEMENT_WEIGHT
             punch_score == Min((weighted * POSE_SCORE_MULTIPLIER) \div 100, SCORE_ONE)
         IN  Analysis(punch_score,
                      [left_extension |-> left_arm_extension,
                       right_extension |-> right_arm_extension,
                       max_extension |-> max_extension,
                       movement_score |-> movement_score,
                       velocity_score |-> velocity_score,
                       orientation |-> orientation,
                       punch_score |-> punch_score])

\* PoseAnalyzer.analyze_pose_punch: what it hands back
analyze_pose_punch(landmarks, current_timestamp, prev, prev_time) ==
    IF landmarks = None THEN Analysis(0, EmptyMetrics)
    ELSE CatchAll(PoseTry(landmarks, current_timestamp, prev, prev_time))

\* a slip in the analyzer: the landmarks stored before the try block is through
StoresPrevious_BeforeTry(landmarks) == landmarks # None

\* PoseAnalyzer.analyze_pose_punch: whether it stores the landmarks as the previous
\* frame (the end of the try block was reached)
StoresPrevious(landmarks) == landmarks # None /\ KeyLandmarks \subseteq DOMAIN landmarks

(***************************************************************************)
(* The two analyzers called directly: a MotionAnalyzer constructed with    *)
(* ACCEL_PUNCH_THRESHOLD (accelerometer_strategy.py:74) and a PoseAnalyzer.*)
(***************************************************************************)
\* the record kept of one analyzer call
AnalyzerCall(analyzer, input, outcome) ==
    [analyzer |-> analyzer, input |-> input, raised |-> outcome.raised,
     score |-> outcome.score, metrics |-> outcome.metrics]

\* the call before this one, and this one
Recent(call) ==
    IF Len(analyses) = 0 THEN <<call>> ELSE <<analyses[Len(analyses)], call>>

AnalyzerInit ==
    /\ prev_landmarks = None
    /\ prev_timestamp = None
    /\ analyses = <<>>

\* a call of MotionAnalyzer.analyze_accelerometer_punch
CallMotionAnalyzer(sensor_data) ==
    /\ analyses' = Recent(AnalyzerCall("motion", sensor_data,
                        analyze_accelerometer_punch(sensor_data, ACCEL_PUNCH_THRESHOLD)))
    /\ UNCHANGED <<prev_landmarks, prev_timestamp, notAnalyzers>>

\* a call of PoseAnalyzer.analyze_pose_punch, at clock now
CallPoseAnalyzer(landmarks) ==
    /\ analyses' = Recent(AnalyzerCall("pose", landmarks,
                        analyze_pose_punch(landmarks, now, prev_landmarks,
                                           IF prev_timestamp = None THEN 0
                                           ELSE prev_timestamp[1])))
    /\ IF StoresPrevious(landmarks)
       THEN /\ prev_landmarks' = Some(landmarks)
            /\ prev_timestamp' = Some(now)
       ELSE UNCHANGED <<prev_landmarks, prev_timestamp>>
    /\ UNCHANGED notAnalyzers

(***************************************************************************)
(* AccelerometerStrategy and PoseStrategy.  The main loop calls the        *)
(* strategies' handlers one after the other; the sensor server's thread    *)
(* runs beside it.                                                         *)
(***************************************************************************)
\* most samples the phone sends in a run
MaxPushes == 3

\* most samples the phone sends in a run that fills the history buffer
MaxBufferPushes == 11

\* most frames the camera delivers in a run
MaxFrames == 3

\* detection_config.py
SENSOR_BUFFER_SIZE == 10

\* the x readings the phone sends: at rest (activity 0) and a hard punch (activity 40)
QueueValues == {981, 4981}

\* the n-th sample queued; handle_sensor_data stamps a sample that has no timestamp
Sample(v, n) == [x |-> Num(v), timestamp |-> Num(n)]

\* What the camera delivers: a frame MediaPipe finds landmarks in, a frame it finds
\* none in, and a frame on which cv2.cvtColor or pose.process raises.
FrameInputs ==
    {[kind |-> "landmarks", landmarks |-> f] : f \in {GuardFrame, SideJabFrame}}
        \cup {[kind |-> "empty", landmarks |-> None], [kind |-> "error", landmarks |-> None]}

\* a slip in update_results: a result already held is kept
WithResults_KeepFirst(strategy, results) ==
    IF strategy.current_results = None
    THEN [strategy EXCEPT !.current_results = Some(results)]
    ELSE strategy

\* BaseDetectionStrategy.update_results, on a strategy object
WithResults(strategy, results) == [strategy EXCEPT !.current_results = Some(results)]

\* PoseAnalyzer.__init__
FreshPoseAnalyzer == [prev_landmarks |-> None, prev_timestamp |-> None]

\* BaseDetectionStrategy.__init__ and the subclasses' __init__
StrategyInit ==
    /\ accel_strategy = [is_active |-> FALSE, current_results |-> None,
                         motion_analyzer |-> FALSE, sensor_server |-> FALSE,
                         latest_analysis |-> None]
    /\ pose_strategy = [is_active |-> FALSE, current_results |-> None,
                        pose |-> FALSE, pose_analyzer |-> None,
                        latest_analysis |-> None]
    /\ sensor_queue = <<>>
    /\ sensor_data_buffer = <<>>
    /\ server_thread = "none"
    /\ serving = FALSE
    /\ drain = None
    /\ pushNo = 0
    /\ dequeued = <<>>
    /\ analyzed = <<>>
    /\ lastDrain = None
    /\ frameNo = 0
    /\ pframe = None

\* AccelerometerStrategy.setup_server.  outcome "ok": SensorServer(...) and start()
\* return; "raise": SensorServer(...) raises, after the analyzer was made.
setup_server(a, outcome) ==
    IF outcome = "ok"
    THEN [a EXCEPT !.motion_analyzer = TRUE, !.sensor_server = TRUE, !.is_active = TRUE]
    ELSE [a EXCEPT !.motion_analyzer = TRUE, !.is_active = FALSE]

\* AccelerometerStrategy.cleanup_server
cleanup_server(a) == [a EXCEPT !.is_active = FALSE, !.latest_analysis = None]

\* PoseStrategy.setup_mediapipe.  outcome "raise": mp_pose.Pose(...) raises.
setup_mediapipe(p, outcome) ==
    IF outcome = "ok"
    THEN [p EXCEPT !.pose = TRUE, !.pose_analyzer = Some(FreshPoseAnalyzer),
                   !.is_active = TRUE]
    ELSE [p EXCEPT !.is_active = FALSE]

\* PoseStrategy.cleanup_mediapipe
cleanup_mediapipe(p) ==
    [p EXCEPT !.pose = FALSE, !.pose_analyzer = None, !.is_active = FALSE,
              !.latest_analysis = None]

\* The 'setup' event (FusionDetector.initialize_strategies): setup_server, then
\* setup_mediapipe.  SensorServer.start() starts the server thread and returns.
setup_event(accel_outcome, pose_outcome) ==
    /\ drain = None
    /\ accel_strategy' = setup_server(accel_strategy, accel_outcome)
    /\ server_thread' = IF accel_outcome = "ok" THEN "started" ELSE server_thread
    /\ pose_strategy' = setup_mediapipe(pose_strategy, pose_outcome)
    /\ pframe' = None
    /\ UNCHANGED <<serving, queueVars, frameNo, notStrategies>>

\* The 'cleanup' event (FusionDetector.cleanup_strategies): cleanup_server, then
\* cleanup_mediapipe.  The server thread is not stopped.
cleanup_event ==
    /\ drain = None
    /\ accel_strategy' = cleanup_server(accel_strategy)
    /\ pose_strategy' = cleanup_mediapipe(pose_strategy)
    /\ pframe' = None
    /\ UNCHANGED <<server_thread, serving, queueVars, frameNo, notStrategies>>

\* run_server, the target of the server thread: socketio.run binds the port and
\* serves, or raises (the port is taken) and the thread ends.  The port can be bound
\* by one server only.
run_server(bound) ==
    /\ server_thread = "started"
    /\ bound => ~serving
    /\ server_thread' = IF bound THEN "alive" ELSE "dead"
    /\ serving' = (serving \/ bound)
    /\ UNCHANGED <<accel_strategy, pose_strategy, queueVars, frameNo, pframe,
                   notStrategies>>

\* a slip in the queue: the sample is put at the head
Put_AtHead(queue, item) == <<item>> \o queue

\* queue.Queue.put
Put(queue, item) == Append(queue, item)

\* SensorServer.handle_sensor_data on the server thread, for a message with reading
\* v: it calls AccelerometerStrategy._handle_sensor_data, which queues the sample
handle_sensor_data(v) ==
    /\ serving
    /\ pushNo' = pushNo + 1
    /\ sensor_queue' = Put(sensor_queue, Sample(v, pushNo + 1))
    /\ UNCHANGED <<accel_strategy, pose_strategy, server_thread, serving,
                   sensor_data_buffer, drain, dequeued, analyzed, lastDrain,
                   frameNo, pframe, notStrategies>>

\* a slip in the buffer: a deque made without maxlen
BufferAppend_Unbounded(buffer, item) == Append(buffer, item)

\* deque(maxlen=SENSOR_BUFFER_SIZE).append
BufferAppend(buffer, item) ==
    IF Len(buffer) >= SENSOR_BUFFER_SIZE THEN Append(Tail(buffer), item)
    ELSE Append(buffer, item)

\* 'is_confident': punch_score > ACCEL_PUNCH_THRESHOLD, the score (in 1 / SCORE_ONE)
\* compared with the number 20.0 (ACCEL_PUNCH_THRESHOLD counts hundredths)
AccelIsConfident(punch_score) == punch_score * 100 > ACCEL_PUNCH_THRESHOLD * SCORE_ONE

\* the result AccelerometerStrategy._analyze_sensor_data builds
AccelResult(sensor_data) ==
    LET analysis == analyze_accelerometer_punch(sensor_data, ACCEL_PUNCH_THRESHOLD)
    IN  [score |-> analysis.score,
         is_confident |-> AccelIsConfident(analysis.score),
         metrics |-> analysis.metrics,
         sensor_data |-> sensor_data,
         timestamp |-> now,
         strategy |-> "accelerometer"]

\* AccelerometerStrategy._analyze_sensor_data
analyze_sensor_data(a, sensor_data) ==
    [WithResults(a, AccelResult(sensor_data)) EXCEPT
        !.latest_analysis = Some(AccelResult(sensor_data))]

\* the record kept of a process_sensor_queue call: whether it got past the guard, the
\* samples it took off the queue, the samples it handed to _analyze_sensor_data, the
\* strategy's result and the number of samples queued when it began, what it returned
DrainRecord(ran, got, handed, before, pushes, returned) ==
    [ran |-> ran, got |-> got, analyzed |-> handed, before |-> before,
     pushes |-> pushes, returned |-> returned]

\* AccelerometerStrategy.process_sensor_queue, up to the loop: the guard, and
\* current_sensor_data = None
process_sensor_queue_enter ==
    /\ drain = None
    /\ IF ~accel_strategy.is_active \/ ~accel_strategy.motion_analyzer
       THEN /\ lastDrain' = Some(DrainRecord(FALSE, <<>>, <<>>,
                                  accel_strategy.current_results, pushNo, None))
            /\ drain' = None
       ELSE /\ drain' = Some([current_sensor_data |-> None, got |-> <<>>,
                              before |-> accel_strategy.current_results,
                              pushes |-> pushNo])
            /\ lastDrain' = lastDrain
    /\ pframe' = None
    /\ UNCHANGED <<accel_strategy, pose_strategy, server_thread, serving, sensor_queue,
                   sensor_data_buffer, pushNo, dequeued, analyzed, frameNo,
                   notStrategies>>

\* a slip in the loop: the first sample taken is kept as the current one
Latest_KeepFirst(current_sensor_data, item) ==
    IF current_sensor_data = None THEN Some(item) ELSE current_sensor_data

\* current_sensor_data = self.sensor_queue.get_nowait()
Latest(current_sensor_data, item) == Some(item)

\* one turn of the loop of process_sensor_queue: the queue is not empty, its head is
\* taken and appended to the buffer
process_sensor_queue_get ==
    /\ drain # None
    /\ sensor_queue # <<>>
    /\ LET item == Head(sensor_queue)
       IN  /\ sensor_queue' = Tail(sensor_queue)
           /\ sensor_data_buffer' = BufferAppend(sensor_data_buffer, item)
           /\ dequeued' = Append(dequeued, item)
           /\ drain' = Some([drain[1] EXCEPT
                                !.current_sensor_data = Latest(@, item),
                                !.got = Append(@, item)])
    /\ UNCHANGED <<accel_strategy, pose_strategy, server_thread, serving, pushNo,
                   analyzed, lastDrain, frameNo, pframe, notStrategies>>

\* the end of process_sensor_queue: the queue is found empty, the sample held is
\* analyzed and returned
process_sensor_queue_exit ==
    /\ drain # None
    /\ sensor_queue = <<>>
    /\ LET d == drain[1]
       IN  IF d.current_sensor_data # None
           THEN /\ accel_strategy' =
                       analyze_sensor_data(accel_strategy, d.current_sensor_data[1])
                /\ analyzed' = Append(analyzed, d.current_sensor_data[1])
                /\ lastDrain' = Some(DrainRecord(TRUE, d.got, <<d.current_sensor_data[1]>>,
                                                 d.before, d.pushes, d.current_sensor_data))
           ELSE /\ UNCHANGED <<accel_strategy, analyzed>>
                /\ lastDrain' = Some(DrainRecord(TRUE, d.got, <<>>, d.before, d.pushes, None))
    /\ drain' = None
    /\ UNCHANGED <<pose_strategy, server_thread, serving, sensor_queue,
                   sensor_data_buffer, pushNo, dequeued, frameNo, pframe,
                   notStrategies>>

\* the result PoseStrategy.process_frame builds for a frame with landmarks, analyzed
\* by the strategy's analyzer; pose_results is the MediaPipe result of frame number no
PoseResult(analyzer, landmarks, no) ==
    LET analysis == analyze_pose_punch(landmarks, now, analyzer.prev_landmarks,
                                       IF analyzer.prev_timestamp = None THEN 0
                                       ELSE analyzer.prev_timestamp[1])
    IN  [score |-> analysis.score,
         metrics |-> analysis.metrics,
         landmarks |-> landmarks,
         pose_results |-> no,
         timestamp |-> now,
         strategy |-> "pose"]

\* the result PoseStrategy.process_frame builds for a frame without landmarks
NoPoseResult(no) ==
    [score |-> 0,
     metrics |-> [no_pose_detected |-> TRUE],
     landmarks |-> None,
     pose_results |-> no,
     timestamp |-> now,
     strategy |-> "pose"]

\* PoseStrategy.process_frame past its guard, for frame number no
ProcessedFrame(p, frame, no) ==
    CASE frame.kind = "error" -> p
      [] frame.kind = "empty" ->
            [WithResults(p, NoPoseResult(no)) EXCEPT
                !.latest_analysis = Some(NoPoseResult(no))]
      [] frame.kind = "landmarks" ->
            [WithResults(p, PoseResult(p.pose_analyzer[1], frame.landmarks, no)) EXCEPT
                !.latest_analysis = Some(PoseResult(p.pose_analyzer[1], frame.landmarks, no)),
                !.pose_analyzer =
                    IF StoresPrevious(frame.landmarks)
                    THEN Some([prev_landmarks |-> Some(frame.landmarks),
                               prev_timestamp |-> Some(now)])
                    ELSE @]

\* PoseStrategy.process_frame, the handler of 'frame_received'
process_frame(frame) ==
    /\ drain = None
    /\ frameNo < MaxFrames
    /\ frameNo' = frameNo + 1
    /\ LET ran == pose_strategy.is_active /\ pose_strategy.pose
                     /\ pose_strategy.pose_analyzer # None
       IN  /\ pframe' = Some([frame |-> frame, no |-> frameNo + 1, ran |-> ran])
           /\ pose_strategy' = IF ran THEN ProcessedFrame(pose_strategy, frame, frameNo + 1)
                               ELSE pose_strategy
    /\ UNCHANGED <<accel_strategy, server_thread, serving, queueVars,
                   notStrategies>>

(***************************************************************************)
(* The comparison script (src/evaluation/compare_ground_truth.py).         *)
(* Timestamps, the match window and the offset are counted in hundredths   *)
(* of a second; a quotient of two integers is kept as the reduced fraction *)
(* <<numerator, denominator>>.  Positions in a list count from 1.          *)
(***************************************************************************)

MaxDetections == 2

MaxEvents == 2

MaxCount == 3

\* match_window: float = 0.3
DEFAULT_MATCH_WINDOW == 30

Hands == {"left", "right"}

\* the timestamps found in detections.jsonl and in ground_truth.jsonl
DetectionTimes == {100, 105, 135, 160}

GroundTruthTimes == {100, 130}

\* the --match-window and --offset values tried
MatchWindows == {5, DEFAULT_MATCH_WINDOW}

Offsets == {0, 5}

\* the dataclass PunchEvent (confidence is carried along and never read by the matching)
PunchEvent(timestamp, hand, source) ==
    [timestamp |-> timestamp, hand |-> hand, source |-> source]

\* the events load_detections builds
DetectionEvents == {PunchEvent(t, h, "detection") : t \in DetectionTimes, h \in Hands}

\* the events load_ground_truth builds
GroundTruthEvents == {PunchEvent(t, h, "peer") : t \in GroundTruthTimes, h \in Hands}

\* the lists of at most n events of S
ListsOf(S, n) == UNION {[1..k -> S] : k \in 0..n}

\* the dataclass MatchResult, with the position best_detection_idx of the matched
\* detection (0: none)
MatchResult(ground_truth, matched_detection, time_diff, best_detection_idx) ==
    [ground_truth |-> ground_truth, matched_detection |-> matched_detection,
     time_diff |-> time_diff, best_detection_idx |-> best_detection_idx]

\* a slip in the offset: the ground truth is left as logged
Adjusted_NoOffset(ground_truth, offset) == ground_truth

\* adjusted_ground_truth: every ground-truth timestamp moved by offset
Adjusted(ground_truth, offset) ==
    [i \in 1..Len(ground_truth) |->
        PunchEvent(ground_truth[i].timestamp + offset, ground_truth[i].hand,
                   ground_truth[i].source)]

\* a slip in the bookkeeping: a used detection is offered again
Unused_Always(idx, used_detections) == TRUE

\* if idx in used_detections: continue
Unused(idx, used_detections) == idx \notin used_detections

\* a slip in the test: the hand label is not compared
Qualifies_AnyHand(time_diff, match_window, det, gt) == Abs(time_diff) <= match_window

\* abs(time_diff) <= match_window and det.hand == gt.hand
Qualifies(time_diff, match_window, det, gt) ==
    Abs(time_diff) <= match_window /\ det.hand = gt.hand

\* a slip in the comparison: a later detection as near as the best one replaces it
Closer_OrEqual(time_diff, best) ==
    best = None \/ Abs(time_diff) <= Abs(best[1].time_diff)

\* best_match is None or abs(time_diff) < abs(best_time_diff)
Closer(time_diff, best) ==
    best = None \/ Abs(time_diff) < Abs(best[1].time_diff)

\* The inner loop of match_events over enumerate(detections), from position idx on;
\* best holds best_detection_idx and best_time_diff (None: best_match is None).
RECURSIVE ScanDetections(_, _, _, _, _, _)
ScanDetections(detections, gt, match_window, used_detections, idx, best) ==
    IF idx > Len(detections) THEN best
    ELSE LET det == detections[idx]
             time_diff == det.timestamp - gt.timestamp
             taken == /\ Unused(idx, used_detections)
                      /\ Qualifies(time_diff, match_window, det, gt)
                      /\ Closer(time_diff, best)
         IN  ScanDetections(detections, gt, match_window, used_detections, idx + 1,
                            IF taken THEN Some([idx |-> idx, time_diff |-> time_diff])
                            ELSE best)

\* The outer loop of match_events over adjusted_ground_truth, from position i on.
RECURSIVE MatchFrom(_, _, _, _, _, _)
MatchFrom(detections, adjusted_ground_truth, match_window, i, used, results) ==
    IF i > Len(adjusted_ground_truth)
    THEN [matched_results |-> results, used_detections |-> used]
    ELSE LET gt == adjusted_ground_truth[i]
             best == ScanDetections(detections, gt, match_window, used, 1, None)
         IN  IF best # None
             THEN MatchFrom(detections, adjusted_ground_truth, match_window, i + 1,
                            used \cup {best[1].idx},
                            Append(results,
                                   MatchResult(gt, Some(detections[best[1].idx]),
                                               Some(best[1].time_diff), best[1].idx)))
             ELSE MatchFrom(detections, adjusted_ground_truth, match_window, i + 1,
                            used, Append(results, MatchResult(gt, None, None, 0)))

\* [x for x in list if keep(position of x)]
RECURSIVE Filter(_, _, _)
Filter(list, keep, i) ==
    IF i > Len(list) THEN <<>>
    ELSE (IF i \in keep THEN <<list[i]>> ELSE <<>>) \o Filter(list, keep, i + 1)

\* a slip in the false positives: every detection is kept as unmatched
Unmatched_All(detections, used_detections) == detections

\* unmatched_detections: the detections whose position was never used
Unmatched(detections, used_detections) ==
    Filter(detections, (1..Len(detections)) \ used_detections, 1)

\* sum(1 for mr in matched_results if (mr.matched_detection is not None) = matched)
CountMatched(matched_results, matched) ==
    Cardinality({i \in 1..Len(matched_results) :
                    (matched_results[i].matched_detection # None) = matched})

\* match_events: (matched_results, unmatched_detections, TP, FP, FN)
match_events(detections, ground_truth, match_window, offset) ==
    LET m == MatchFrom(detections, Adjusted(ground_truth, offset), match_window, 1, {},
                       <<>>)
        unmatched_detections == Unmatched(detections, m.used_detections)
    IN  [matched_results |-> m.matched_results,
         unmatched_detections |-> unmatched_detections,
         true_positives |-> CountMatched(m.matched_results, TRUE),
         false_positives |-> Len(unmatched_detections),
         false_negatives |-> CountMatched(m.matched_results, FALSE)]

RECURSIVE Gcd(_, _)
Gcd(a, b) == IF b = 0 THEN a ELSE Gcd(b, a % b)

\* the float n / d (d > 0), as a reduced fraction
Ratio(n, d) ==
    LET g == Gcd(Abs(n), d)
    IN  <<n \div g, d \div g>>

\* the float 0.0
Zero == Ratio(0, 1)

Times(a, b) == Ratio(a[1] * b[1], a[2] * b[2])

Plus(a, b) == Ratio(a[1] * b[2] + b[1] * a[2], a[2] * b[2])

\* a / b for b > 0 (the test before the division of f1 sees to it)
Over(a, b) == Ratio(a[1] * b[2], a[2] * b[1])

\* n / d: a ZeroDivisionError (None) when d is 0
Quotient(n, d) == IF d = 0 THEN None ELSE Ratio(n, d)

\* a slip in the precision: the division made without the test on its denominator
Precision_Unguarded(tp, fp) == Quotient(tp, tp + fp)

\* precision = tp / (tp + fp) if (tp + fp) > 0 else 0.0
Precision(tp, fp) == IF tp + fp > 0 THEN Quotient(tp, tp + fp) ELSE Zero

\* what calculate_metrics returns, or the ZeroDivisionError it raised
Metrics(raised, precision, recall, f1) ==
    [raised |-> raised, precision |-> precision, recall |-> recall, f1_score |-> f1]

\* calculate_metrics
calculate_metrics(tp, fp, fn) ==
    LET precision == Precision(tp, fp)
        recall == IF tp + fn > 0 THEN Quotient(tp, tp + fn) ELSE Zero
        f1 == IF Plus(precision, recall)[1] > 0
              THEN Over(Times(Ratio(2, 1), Times(precision, recall)),
                        Plus(precision, recall))
              ELSE Zero
    IN  IF precision = None \/ recall = None
        THEN Metrics(TRUE, None, None, None)
        ELSE Metrics(FALSE, precision, recall, f1)

RECURSIVE Sum(_, _)
Sum(list, i) == IF i > Len(list) THEN 0 ELSE list[i] + Sum(list, i + 1)

\* generate_report: successful_matches and their avg_diff (None when there is none)
avg_diff(matched_results) ==
    LET successful_matches ==
            Filter(matched_results,
                   {i \in 1..Len(matched_results) :
                       matched_results[i].matched_detection # None}, 1)
        time_diffs == [i \in 1..Len(successful_matches) |->
                          successful_matches[i].time_diff[1]]
    IN  IF successful_matches # <<>>
        THEN Some(Ratio(Sum(time_diffs, 1), Len(time_diffs)))
        ELSE None

EvaluatorInit ==
    /\ comparison = None
    /\ metrics_call = None
    /\ report = None

\* match_events called on two loaded lists; the script makes one comparison
CallMatchEvents ==
    /\ comparison = None
    /\ metrics_call = None
    /\ \E detections \in ListsOf(DetectionEvents, MaxDetections),
          ground_truth \in ListsOf(GroundTruthEvents, MaxEvents),
          match_window \in MatchWindows, offset \in Offsets :
          comparison' = Some([detections |-> detections, ground_truth |-> ground_truth,
                              match_window |-> match_window, offset |-> offset,
                              returned |-> match_events(detections, ground_truth,
                                                        match_window, offset)])
    /\ UNCHANGED <<metrics_call, report, notEvaluator>>

\* calculate_metrics called on three counts
CallCalculateMetrics ==
    /\ comparison = None
    /\ metrics_call = None
    /\ \E tp, fp, fn \in 0..MaxCount :
          metrics_call' = Some([tp |-> tp, fp |-> fp, fn |-> fn,
                                returned |-> calculate_metrics(tp, fp, fn)])
    /\ UNCHANGED <<comparison, report, notEvaluator>>

\* the clock skews between the two logs, in hundredths of a second
Skews == {5, 10, -10}

\* what became of a punch the observer logged: the detector logged it, logged it
\* for the other hand, or did not log it
Fates == {"detected", "mislabelled", "missed"}

OtherHand(hand) == IF hand = "left" THEN "right" ELSE "left"

\* detections.jsonl of a session whose detector clock is skew ahead of the observer's:
\* load_detections on the lines logged for the ground-truth events from position i on
RECURSIVE SkewedDetections(_, _, _, _)
SkewedDetections(ground_truth, fates, skew, i) ==
    IF i > Len(ground_truth) THEN <<>>
    ELSE LET gt == ground_truth[i]
             logged ==
                 CASE fates[i] = "detected" ->
                         <<PunchEvent(gt.timestamp + skew, gt.hand, "detection")>>
                   [] fates[i] = "mislabelled" ->
                         <<PunchEvent(gt.timestamp + skew, OtherHand(gt.hand), "detection")>>
                   [] OTHER -> <<>>
         IN  logged \o SkewedDetections(ground_truth, fates, skew, i + 1)

\* f"{x:.3f}" read back by argparse (type=float): the whole number of thousandths of a
\* second nearest to r hundredths (the means that occur are never half-way)
Thousandths(r) == (20 * r[1] + r[2]) \div (2 * r[2])

\* -avg_diff
Negated(r) == <<-r[1], r[2]>>

\* generate_report, tuning suggestions: the value of the `--offset` it suggests, in
\* thousandths of a second (None: it suggests none)
tuning_offset(matched_results, unmatched_detections) ==
    LET false_negatives == CountMatched(matched_results, FALSE)
        avg == avg_diff(matched_results)
    IN  IF /\ false_negatives > 0
           /\ unmatched_detections # <<>>
           /\ avg # None
           /\ Abs(avg[1][1]) > 5 * avg[1][2]
        THEN Some(Thousandths(Negated(avg[1])))
        ELSE None

\* the events with their timestamps in units factor times finer
Scaled(events, factor) ==
    [i \in 1..Len(events) |->
        PunchEvent(events[i].timestamp * factor, events[i].hand, events[i].source)]

\* main() run without --offset on the logs of a skewed session
CallGenerateReport ==
    /\ report = None
    /\ \E ground_truth \in ListsOf(GroundTruthEvents, MaxEvents) \ {<<>>},
          skew \in Skews, match_window \in MatchWindows :
          \E fates \in [1..Len(ground_truth) -> Fates] :
             LET detections == SkewedDetections(ground_truth, fates, skew, 1)
                 returned == match_events(detections, ground_truth, match_window, 0)
             IN  report' = Some([detections |-> detections,
                                 ground_truth |-> ground_truth,
                                 match_window |-> match_window,
                                 skew |-> skew,
                                 returned |-> returned,
                                 suggested |-> tuning_offset(returned.matched_results,
                                                   returned.unmatched_detections),
                                 rerun |-> None])
    /\ UNCHANGED <<comparison, metrics_call, notEvaluator>>

\* main() run again on the same logs with the --offset the report suggested; the
\* times of this run are in thousandths of a second
RerunWithSuggestedOffset ==
    /\ report # None
    /\ report[1].suggested # None
    /\ report[1].rerun = None
    /\ report' = Some([report[1] EXCEPT !.rerun =
                         Some(match_events(Scaled(report[1].detections, 10),
                                           Scaled(report[1].ground_truth, 10),
                                           10 * report[1].match_window,
                                           report[1].suggested[1]))])
    /\ UNCHANGED <<comparison, metrics_call, notEvaluator>>

(***************************************************************************)
(* GameState (src/game/game_state.py), constructed without an event        *)
(* manager and with no high score file on disk.  Times are in ticks of     *)
(* 0.1 s, punch strengths in tenths.  The countdown and the game timer     *)
(* (countdown_start_time, game_start_time, game_timer) are left out: the   *)
(* mode changes when start_game, begin_playing, end_game or return_to_menu *)
(* is called.                                                              *)
(***************************************************************************)
\* time.time() when the objects are constructed
StartWall == 1000

\* most ticks that pass in a run of the game
MaxGameElapsed == 40

\* most register_punch calls in a run
MaxPunches == 3

\* most start_game calls in a run
MaxGames == 2

\* game_config.py
COMBO_TIMEOUT == 20

COMBO_BONUS_POINTS == 10

BASE_SCORE_MULTIPLIER == 100

\* the punch strengths the callers pass: 0.5 and 1.0
Strengths == {5, 10}

\* the time that passes between two calls: 1 s, 2 s
GameElapses == {10, 20}

\* the return value of a GameState call
GRet(op, value) == [op |-> op, value |-> value]

\* the call just made returned None, or no call was just made
GNoReturn == GRet("none", None)

GameInit ==
    /\ wall = StartWall
    /\ game = [score |-> 0, punch_count |-> 0, combo_count |-> 0, last_punch_time |-> 0,
               last_punch_score |-> 0, game_mode |-> "menu", high_score |-> 0,
               max_combo_this_game |-> 0]
    /\ gret = GNoReturn
    /\ high_before = 0
    /\ punchesMade = 0
    /\ gamesStarted = 0

\* int(punch_strength * BASE_SCORE_MULTIPLIER)
BasePoints(punch_strength) == (punch_strength * BASE_SCORE_MULTIPLIER) \div 10

\* a slip in the test: a punch exactly combo_timeout after the last one still counts
ContinuesCombo_AtTimeout(g, timestamp) ==
    timestamp - g.last_punch_time <= COMBO_TIMEOUT /\ g.last_punch_time > 0

\* time_since_last < self.combo_timeout and self.last_punch_time > 0
ContinuesCombo(g, timestamp) ==
    timestamp - g.last_punch_time < COMBO_TIMEOUT /\ g.last_punch_time > 0

\* GameState._update_combo_system: the object after it and the bonus it returns
update_combo_system(g, timestamp) ==
    LET combo_count == IF ContinuesCombo(g, timestamp) THEN g.combo_count + 1 ELSE 1
        combo_bonus == IF ContinuesCombo(g, timestamp)
                       THEN combo_count * COMBO_BONUS_POINTS ELSE 0
    IN  [game |-> [g EXCEPT !.combo_count = combo_count,
                            !.max_combo_this_game = Max(combo_count, g.max_combo_this_game)],
         combo_bonus |-> combo_bonus]

\* GameState.register_punch
register_punch(punch_strength, timestamp) ==
    /\ punchesMade < MaxPunches
    /\ punchesMade' = punchesMade + 1
    /\ LET points == BasePoints(punch_strength)
           updated == update_combo_system([game EXCEPT !.punch_count = @ + 1], timestamp)
           total_points == points + updated.combo_bonus
       IN  /\ game' = [updated.game EXCEPT !.score = @ + total_points,
                                           !.last_punch_time = timestamp,
                                           !.last_punch_score = total_points]
           /\ gret' = GRet("register_punch",
                           [base_points |-> points,
                            combo_bonus |-> updated.combo_bonus,
                            total_points |-> total_points,
                            new_score |-> game'.score,
                            combo_count |-> game'.combo_count,
                            punch_count |-> game'.punch_count])
    /\ UNCHANGED <<wall, high_before, gamesStarted, notGame>>

\* GameState.reset_score: the object after it
ResetScore(g) ==
    [g EXCEPT !.score = 0, !.punch_count = 0, !.combo_count = 0, !.last_punch_time = 0,
              !.last_punch_score = 0, !.max_combo_this_game = 0]

\* GameState.reset_score
reset_score ==
    /\ game' = ResetScore(game)
    /\ gret' = GRet("reset_score", None)
    /\ UNCHANGED <<wall, high_before, punchesMade, gamesStarted, notGame>>

\* GameState.start_game
start_game ==
    /\ gamesStarted < MaxGames
    /\ gamesStarted' = gamesStarted + 1
    /\ game' = ResetScore([game EXCEPT !.game_mode = "countdown"])
    /\ gret' = GRet("start_game", None)
    /\ high_before' = game.high_score
    /\ UNCHANGED <<wall, punchesMade, notGame>>

\* GameState.begin_playing, called by get_countdown_value when the countdown is over
begin_playing ==
    /\ game.game_mode = "countdown"
    /\ game' = [game EXCEPT !.game_mode = "playing"]
    /\ gret' = GRet("begin_playing", None)
    /\ UNCHANGED <<wall, high_before, punchesMade, gamesStarted, notGame>>

\* GameState._check_and_save_high_score: the object after it
CheckedHighScore(g) ==
    IF g.score > g.high_score THEN [g EXCEPT !.high_score = g.score] ELSE g

\* GameState.end_game: the object after it
EndGame(g) ==
    CheckedHighScore([g EXCEPT !.game_mode = "game_over"])

\* the high score held before the game that ends with this call ended
HighBefore(g) == IF g.game_mode = "game_over" THEN high_before ELSE g.high_score

\* GameState.end_game
end_game ==
    /\ game' = EndGame(game)
    /\ gret' = GRet("end_game", None)
    /\ high_before' = HighBefore(game)
    /\ UNCHANGED <<wall, punchesMade, gamesStarted, notGame>>

\* GameState.return_to_menu
return_to_menu ==
    /\ game' = ResetScore([game EXCEPT !.game_mode = "menu"])
    /\ gret' = GRet("return_to_menu", None)
    /\ high_before' = game.high_score
    /\ UNCHANGED <<wall, punchesMade, gamesStarted, notGame>>

\* GameState.is_new_high_score
is_new_high_score == game.score = game.high_score /\ game.score > 0

(***************************************************************************)
(* RecordingManager (src/evaluation/recording_manager.py).  The video, the *)
(* sensor data file and the metadata file are left out; of the session     *)
(* directories only detections.jsonl is kept.                              *)
(***************************************************************************)
\* most ticks that pass in a run of the recorder
MaxRecorderElapsed == 10

\* most punch_detected events in a run
MaxReceived == 3

\* most start_recording calls in a run
MaxStarts == 2

\* recording_config.py
BUFFER_SIZE == 100

\* the time that passes between two calls: 0.5 s, 1 s
RecorderElapses == {5, 10}

\* the return value of a RecordingManager call
RRet(op, value) == [op |-> op, value |-> value]

\* the call just made returned None (and was not stop_recording), or no call was made
RNoReturn == RRet("none", None)

RecorderInit ==
    /\ recorder = [is_recording_flag |-> FALSE, session_dir |-> None, start_time |-> None,
                   detection_buffer |-> <<>>]
    /\ files = [dir \in {} |-> <<>>]
    /\ rret = RNoReturn
    /\ received = <<>>
    /\ dropped = {}
    /\ evNo = 0
    /\ startsMade = 0

\* f"session_{datetime.now().strftime(TIMESTAMP_FORMAT)}": "%Y%m%d_%H%M%S" names the
\* second the call was made in
SessionId(t) == t \div 10

\* RecordingManager.start_recording; opened is what video_writer.isOpened() says
start_recording(opened) ==
    /\ startsMade < MaxStarts
    /\ startsMade' = startsMade + 1
    /\ IF recorder.is_recording_flag
       THEN /\ rret' = RRet("start_recording", FALSE)
            /\ UNCHANGED <<recorder, received>>
       ELSE LET session_dir == Some(SessionId(wall))
            IN  IF ~opened
                THEN /\ recorder' = [recorder EXCEPT !.session_dir = session_dir]
                     /\ rret' = RRet("start_recording", FALSE)
                     /\ UNCHANGED received
                ELSE /\ recorder' = [is_recording_flag |-> TRUE,
                                     session_dir |-> session_dir,
                                     start_time |-> Some(wall),
                                     detection_buffer |-> <<>>]
                     /\ rret' = RRet("start_recording", TRUE)
                     /\ received' = <<>>
    /\ UNCHANGED <<files, dropped, evNo, wall, notRecorder>>

\* open(detections_path, 'a') and one line written per buffered record
AppendedLines(f, dir, lines) ==
    [d \in DOMAIN f \cup {dir} |-> (IF d \in DOMAIN f THEN f[d] ELSE <<>>)
                                      \o (IF d = dir THEN lines ELSE <<>>)]

\* RecordingManager._flush_detections: the files after it
FlushedFiles(r, f) ==
    IF r.detection_buffer = <<>> \/ r.session_dir = None THEN f
    ELSE AppendedLines(f, r.session_dir[1], r.detection_buffer)

\* RecordingManager._flush_detections: the object after it
Flushed(r) ==
    IF r.detection_buffer = <<>> \/ r.session_dir = None THEN r
    ELSE [r EXCEPT !.detection_buffer = <<>>]

\* RecordingManager.stop_recording
stop_recording ==
    /\ IF ~recorder.is_recording_flag
       THEN /\ rret' = RRet("stop_recording", None)
            /\ UNCHANGED <<recorder, files>>
       ELSE /\ files' = FlushedFiles(recorder, files)
            /\ recorder' = [Flushed(recorder) EXCEPT !.is_recording_flag = FALSE,
                                                     !.session_dir = None,
                                                     !.start_time = None]
            /\ rret' = RRet("stop_recording", recorder.session_dir)
    /\ UNCHANGED <<received, dropped, evNo, startsMade, wall, notRecorder>>

\* the detection record built for the event numbered n
DetectionRecord(r, n) ==
    [event |-> n,
     timestamp |-> IF r.start_time # None /\ r.start_time[1] # 0
                   THEN wall - r.start_time[1] ELSE 0]

\* RecordingManager._on_punch_detected, the hook for 'punch_detected'
on_punch_detected ==
    /\ evNo < MaxReceived
    /\ evNo' = evNo + 1
    /\ rret' = RRet("on_punch_detected", None)
    /\ IF ~recorder.is_recording_flag
       THEN /\ dropped' = dropped \cup {evNo + 1}
            /\ UNCHANGED <<recorder, files, received>>
       ELSE LET appended ==
                    [recorder EXCEPT !.detection_buffer =
                        Append(@, DetectionRecord(recorder, evNo + 1))]
                full == Len(appended.detection_buffer) >= BUFFER_SIZE
            IN  /\ recorder' = IF full THEN Flushed(appended) ELSE appended
                /\ files' = IF full THEN FlushedFiles(appended, files) ELSE files
                /\ received' = Append(received, evNo + 1)
                /\ UNCHANGED dropped
    /\ UNCHANGED <<startsMade, wall, notRecorder>>

\* time passes between two calls
Elapse(d) ==
    /\ wall' = wall + d
    /\ gret' = GNoReturn
    /\ rret' = RNoReturn
    /\ UNCHANGED <<game, high_before, punchesMade, gamesStarted>>
    /\ UNCHANGED <<recorder, files, received, dropped, evNo, startsMade>>
    /\ UNCHANGED notGameOrRecorder

Init == FusionInit /\ EventInit /\ AnalyzerInit /\ StrategyInit /\ EvaluatorInit /\ GameInit
                   /\ RecorderInit

Next ==
    \/ Tick
    \/ \E s \in Strategies : add_strategy(s)
    \/ \E s \in Strategies : remove_strategy(s)
    \/ \E s \in Strategies, r \in Results : update_results(s, r)
    \/ \E outcome \in [Strategies -> {"ok", "raise"}] : initialize_strategies(outcome)
    \/ cleanup_strategies
    \/ reset_cooldown
    \/ detect_punch

Spec == Init /\ [][Next]_vars

EventNext ==
    \/ \E e \in Events, cb \in Handlers, p \in Priorities : register_hook(e, cb, p)
    \/ \E e \in Events, cb \in Handlers : unregister_hook(e, cb)
    \/ \E e \in Events, arg \in Contexts : trigger_event(e, arg)
    \/ \E e \in Events, c \in Contexts : trigger_event_chain(e, c)
    \/ \E e \in Events : has_listeners(e)
    \/ \E e \in Events : clear_event(e)
    \/ clear_all

SpecEvents == Init /\ [][EventNext]_vars

\* the callbacks registered in a run whose callbacks call the manager
DispatchHandlers == HookHandlers \cup {"copy"}

\* the "join" entries of an event: each registers one callback when the event fires
Joins(event_name) ==
    IF event_name \notin DOMAIN hooks THEN {}
    ELSE {i \in 1..Len(hooks[event_name]) : hooks[event_name][i].callback = "join"}

\* a run with callbacks that register and unregister while the event is fired
DispatchNext ==
    \/ \E e \in Events, cb \in DispatchHandlers, p \in Priorities : register_hook(e, cb, p)
    \/ \E e \in Events, cb \in DispatchHandlers : unregister_hook(e, cb)
    \/ \E e \in Events : /\ regNo + Cardinality(Joins(e)) <= MaxRegs
                         /\ trigger_event(e, EmptyDict)

SpecDispatch == Init /\ [][DispatchNext]_vars

AnalyzerNext ==
    \/ Tick
    \/ \E sensor_data \in SensorInputs : CallMotionAnalyzer(sensor_data)
    \/ \E landmarks \in PoseInputs : CallPoseAnalyzer(landmarks)

SpecAnalyzers == Init /\ [][AnalyzerNext]_vars

StrategyNext ==
    \/ \E accel_outcome, pose_outcome \in {"ok", "raise"} :
          setup_event(accel_outcome, pose_outcome)
    \/ cleanup_event
    \/ \E bound \in BOOLEAN : run_server(bound)
    \/ \E v \in QueueValues : pushNo < MaxPushes /\ handle_sensor_data(v)
    \/ process_sensor_queue_enter
    \/ process_sensor_queue_get
    \/ process_sensor_queue_exit

SpecStrategies == Init /\ [][StrategyNext]_vars

\* a run in which the phone sends MaxBufferPushes samples at rest
BufferNext ==
    \/ setup_event("ok", "ok")
    \/ run_server(TRUE)
    \/ pushNo < MaxBufferPushes /\ handle_sensor_data(GRAVITY)
    \/ process_sensor_queue_enter
    \/ process_sensor_queue_get
    \/ process_sensor_queue_exit

SpecBuffer == Init /\ [][BufferNext]_vars

PoseNext ==
    \/ Tick
    \/ \E accel_outcome, pose_outcome \in {"ok", "raise"} :
          setup_event(accel_outcome, pose_outcome)
    \/ cleanup_event
    \/ \E frame \in FrameInputs : process_frame(frame)

SpecPose == Init /\ [][PoseNext]_vars

EvaluatorNext ==
    \/ CallMatchEvents
    \/ CallCalculateMetrics

SpecEvaluator == Init /\ [][EvaluatorNext]_vars

ReportNext ==
    \/ CallGenerateReport
    \/ RerunWithSuggestedOffset

SpecReport == Init /\ [][ReportNext]_vars

GameNext ==
    \/ \E d \in GameElapses : wall + d <= StartWall + MaxGameElapsed /\ Elapse(d)
    \/ \E punch_strength \in Strengths : register_punch(punch_strength, wall)
    \/ reset_score
    \/ start_game
    \/ begin_playing
    \/ end_game
    \/ return_to_menu

SpecGame == Init /\ [][GameNext]_vars

RecorderNext ==
    \/ \E d \in RecorderElapses : wall + d <= StartWall + MaxRecorderElapsed /\ Elapse(d)
    \/ \E opened \in BOOLEAN : start_recording(opened)
    \/ stop_recording
    \/ on_punch_detected

SpecRecorder == Init /\ [][RecorderNext]_vars

(***************************************************************************)
(* Claims about the FusionDetector, checked under Spec.                    *)
(***************************************************************************)
\* the strategy objects in the detector's list
Registered == {strategies[i] : i \in 1..Len(strategies)}

ActiveRegistered == {s \in Registered : is_active[s]}

IsConfident(s) == current_results[s] # None /\ current_results[s][1].is_confident

\* the call just made was detect_punch
DetectReturned == ret.op = "detect_punch"

\* the call just made was a detect_punch that passed the cooldown gate (it returned a
\* filled metrics dictionary); detect_punch changes no strategy, so the strategies
\* and results of this state are the ones the call saw
DetectPassedGate == DetectReturned /\ ret.metrics # EmptyMetrics

\* C1 (as claimed): whenever detect_punch returns True after an earlier True return,
\* the clock has advanced by at least PUNCH_COOLDOWN since that earlier return,
\* whatever operations (reset_cooldown included) came between.
C1_PunchesCooldownApart ==
    [][(ret'.op = "detect_punch" /\ ret'.is_punch /\ lastTrue >= 0)
          => now' - lastTrue >= PUNCH_COOLDOWN]_vars

\* C1 (amended): whenever detect_punch returns True after an earlier True return and
\* reset_cooldown was not called in between, the clock has advanced by at least
\* PUNCH_COOLDOWN since that earlier return, whatever the strategy scores are.
C1_PunchesCooldownApartUnlessReset ==
    [][(ret'.op = "detect_punch" /\ ret'.is_punch /\ punchNo >= 1)
          => now' - lastTrue >= PUNCH_COOLDOWN]_vars

C1_SecondPunchWithoutReset == DetectReturned /\ ret.is_punch /\ punchNo = 2

\* C2: a detect_punch call made while now - last_punch_time < PUNCH_COOLDOWN returns
\* exactly (False, 0, {}) and reads no strategy result.
C2_CooldownReturnsEmpty ==
    [][(ret'.op = "detect_punch" /\ now - last_punch_time < PUNCH_COOLDOWN)
          => /\ ret'.is_punch = FALSE
             /\ ret'.combined_score = 0
             /\ ret'.metrics = EmptyMetrics
             /\ ret'.read = {}]_vars

\* a call inside the cooldown returned, with a registered active strategy at score 1.0
C2_GatedWithStrongSignal ==
    /\ DetectReturned
    /\ now - last_punch_time < PUNCH_COOLDOWN
    /\ ret.metrics = EmptyMetrics
    /\ \E s \in ActiveRegistered : ScoreOf(current_results[s]) = 10

\* C3: outside the cooldown, detect_punch returns True whenever a registered active
\* strategy's latest result carries is_confident = true.
C3_ConfidentOverrides ==
    (DetectPassedGate /\ \E s \in ActiveRegistered : IsConfident(s)) => ret.is_punch

\* C4: outside the cooldown, detect_punch returns True whenever the combined score
\* exceeds MINIMUM_COMBINED_SCORE.
C4_CombinedScoreSuffices ==
    (DetectPassedGate /\ ret.combined_score > MINIMUM_COMBINED_SCORE) => ret.is_punch

\* the weight detect_punch gives a strategy's score, by strategy name
WeightOf(name) ==
    IF name = "AccelerometerStrategy" THEN ACCEL_WEIGHT
    ELSE IF name = "PoseStrategy" THEN VISUAL_WEIGHT
    ELSE 0

RECURSIVE SumOver(_, _)
SumOver(S, withScore) ==
    IF S = {} THEN 0
    ELSE LET s == CHOOSE x \in S : TRUE
         IN  WeightOf(get_strategy_name(s))
               * (IF withScore THEN ScoreOf(current_results[s]) ELSE 1)
             + SumOver(S \ {s}, withScore)

\* C5: outside the cooldown, the combined score is sum(score * weight) / sum(weight)
\* over the registered active strategies, and 0 when that weight sum is 0.  (Scores
\* and weights are in tenths and the combined score in hundredths, hence the 10.)
C5_CombinedIsWeightedAverage ==
    DetectPassedGate =>
        IF SumOver(ActiveRegistered, FALSE) > 0
        THEN ret.combined_score * SumOver(ActiveRegistered, FALSE)
                = 10 * SumOver(ActiveRegistered, TRUE)
        ELSE ret.combined_score = 0

\* C6: with no registered strategy, or every registered strategy inactive, detect_punch
\* returns is_punch = False with combined score 0.
C6_NoActiveStrategyNoPunch ==
    (DetectReturned /\ ActiveRegistered = {})
        => (ret.is_punch = FALSE /\ ret.combined_score = 0)

\* outside the cooldown, a registered but inactive strategy holds a score of 1.0
C6_InactiveStrongSignal ==
    /\ DetectPassedGate
    /\ ActiveRegistered = {}
    /\ \E s \in Registered : ScoreOf(current_results[s]) = 10

\* The weights in effect, by strategy name: the detector keeps no mapping of its
\* own, detect_punch applies the two configured weights to the two names it knows.
WeightByName ==
    [name \in {"AccelerometerStrategy", "PoseStrategy"} |-> WeightOf(name)]

\* C7: the names that have a weight are exactly the names of the registered strategies.
C7_WeightKeysAreRegisteredNames ==
    DOMAIN WeightByName = {get_strategy_name(s) : s \in Registered}

(***************************************************************************)
(* Claims about the EventManager, checked under SpecEvents.                *)
(***************************************************************************)
\* the hook list the call just made worked on (a trigger changes no list)
FiredList == hooks[eret.event]

\* C8: the handler list of every event is ordered by priority descending, handlers of
\* equal priority in the order they were registered, and trigger_event invokes the
\* handlers of its event in exactly the order of the list.
C8_PriorityOrderKept ==
    /\ \A e \in DOMAIN hooks : \A i, j \in 1..Len(hooks[e]) :
          i < j => \/ hooks[e][i].priority > hooks[e][j].priority
                   \/ /\ hooks[e][i].priority = hooks[e][j].priority
                      /\ hooks[e][i].reg < hooks[e][j].reg
    /\ eret.op = "trigger_event" =>
          /\ Len(calls) = Len(FiredList)
          /\ \A i \in 1..Len(calls) :
                /\ calls[i].callback = FiredList[i].callback
                /\ calls[i].reg = FiredList[i].reg

\* trigger_event ran a list holding two handlers of equal priority and a handler
\* that was registered after a lower-priority one it now precedes
C8_TiesAndReorderFired ==
    /\ eret.op = "trigger_event"
    /\ \E i, j \in 1..Len(calls) :
          i < j /\ FiredList[i].priority = FiredList[j].priority
    /\ \E i, j \in 1..Len(calls) :
          i < j /\ FiredList[i].priority > FiredList[j].priority
                /\ FiredList[i].reg > FiredList[j].reg

\* C9: trigger_event invokes every handler of the event, also after one raised, and
\* returns one entry per handler in call order: the handler's return value, None for
\* a handler that raised.
C9_BestEffortBroadcast ==
    eret.op = "trigger_event" =>
        /\ Len(calls) = Len(FiredList)
        /\ Len(eret.value) = Len(FiredList)
        /\ \A i \in 1..Len(FiredList) :
              /\ calls[i].callback = FiredList[i].callback
              /\ calls[i].raised => eret.value[i] = None
              /\ ~calls[i].raised => eret.value[i] = calls[i].value

\* a handler raised and a later handler of the same dispatch ran and returned a value
C9_LaterHandlerRanAfterRaise ==
    /\ eret.op = "trigger_event"
    /\ \E i, j \in 1..Len(calls) :
          /\ i < j
          /\ calls[i].raised
          /\ ~calls[j].raised
          /\ eret.value[i] = None
          /\ eret.value[j] # None

\* C10: in trigger_event_chain the first handler sees the initial context, a mapping a
\* handler returns is merged key-wise (overwriting) into the running context (the
\* dictionary the handler was handed, as it stands when the handler returns) before
\* the next handler sees it, and the context after the last handler is the value
\* returned.
C10_ChainMergesBeforeNext ==
    eret.op = "trigger_event_chain" =>
        /\ Len(calls) = Len(FiredList)
        /\ Len(calls) = 0 => eret.value.final = eret.value.initial
        /\ Len(calls) > 0 => calls[1].seen = eret.value.initial
        /\ \A k \in 1..Len(calls) :
              LET c == calls[k]
                  after == IF k = Len(calls) THEN eret.value.final ELSE calls[k + 1].seen
              IN  ~c.raised /\ c.value # None =>
                      /\ DOMAIN after = DOMAIN c.left \cup DOMAIN c.value[1]
                      /\ \A key \in DOMAIN after :
                            after[key] = IF key \in DOMAIN c.value[1]
                                         THEN c.value[1][key]
                                         ELSE c.left[key]

\* {"y": 10} went through "inc" and then "copy": "copy" saw y = 11, the value "inc"
\* wrote, and the returned context holds both handlers' values
C10_SecondHandlerSawFirstWrite ==
    /\ eret.op = "trigger_event_chain"
    /\ Len(calls) >= 2
    /\ calls[1].callback = "inc"
    /\ calls[2].callback = "copy"
    /\ "y" \in DOMAIN eret.value.initial
    /\ eret.value.initial["y"] = 10
    /\ calls[2].seen["y"] = 11
    /\ "x" \in DOMAIN eret.value.final
    /\ eret.value.final["x"] = 11

\* C11: in trigger_event_chain a handler that raises leaves the running context as it
\* was before the handler was called: the next handler (or the caller, after the last
\* handler) gets exactly the context the raising handler was handed, and the handlers
\* after it are still called.
C11_RaisingHandlerLeavesContext ==
    eret.op = "trigger_event_chain" =>
        /\ Len(calls) = Len(FiredList)
        /\ \A k \in 1..Len(calls) :
              LET c == calls[k]
                  after == IF k = Len(calls) THEN eret.value.final ELSE calls[k + 1].seen
              IN  c.raised => after = c.seen

\* C12: unregister_hook(event, handler) removes the first entry of the event's list
\* whose callback equals handler, and nothing else, and returns True: the entries
\* before it and after it keep their order, the other events keep their lists and no
\* event appears or disappears.  When the event is unknown or no entry matches it
\* returns False and the whole table is as it was.
C12_UnregisterRemovesFirstMatchOnly ==
    [][eret'.op = "unregister_hook" =>
         LET e == eret'.event
             cb == eret'.value.callback
             list == IF e \in DOMAIN hooks THEN hooks[e] ELSE <<>>
             found == {i \in 1..Len(list) : list[i].callback = cb}
         IN  IF found = {}
             THEN /\ eret'.value.removed = FALSE
                  /\ hooks' = hooks
             ELSE /\ eret'.value.removed = TRUE
                  /\ DOMAIN hooks' = DOMAIN hooks
                  /\ \A o \in DOMAIN hooks : o # e => hooks'[o] = hooks[o]
                  /\ Len(hooks'[e]) = Len(list) - 1
                  /\ \E i \in found :
                        /\ \A j \in found : i <= j
                        /\ \A j \in 1..(i - 1) : hooks'[e][j] = list[j]
                        /\ \A j \in i..(Len(list) - 1) : hooks'[e][j] = list[j + 1]
    ]_vars

\* unregister_hook took an entry out of a list that held the callback twice: the later
\* entry is still there, and another event holds handlers as well
C12_RemovedFirstOfTwo ==
    /\ eret.op = "unregister_hook"
    /\ eret.value.removed
    /\ \E i \in 1..Len(hooks[eret.event]) :
          hooks[eret.event][i].callback = eret.value.callback
    /\ \E o \in DOMAIN hooks : o # eret.event /\ Len(hooks[o]) > 0

(***************************************************************************)
(* Claims about the analyzers, checked under SpecAnalyzers.                *)
(***************************************************************************)
\* the calls of analyze_accelerometer_punch, among the last two calls, that were handed
\* a sample with a number for x
NumericMotionCalls ==
    {i \in 1..Len(analyses) :
        /\ analyses[i].analyzer = "motion"
        /\ analyses[i].input # None
        /\ "x" \in DOMAIN analyses[i].input
        /\ IsNumber(analyses[i].input.x)}

\* |magnitude - 9.81| of the sample of call i (y and z are 0), in hundredths of m/s^2
ActivityOf(i) == Abs(Abs(analyses[i].input.x[2]) - 981)

\* C19: the MotionAnalyzer score is 0 for an activity |magnitude - 9.81| up to and
\* including the punch threshold 20, and min(activity / 40, 1.0) above it: activity 30
\* gives 0.75, activity 40 and more gives 1.0, and of two samples above the threshold
\* the one with the larger activity never has the smaller score.
C19_ScoreFollowsActivity ==
    /\ \A i \in NumericMotionCalls :
          LET a == ActivityOf(i)
              score == analyses[i].score
          IN  /\ a <= 2000 => score = 0
              /\ a > 2000 => score * 4000 = Min(a, 4000) * SCORE_ONE
              /\ a = 3000 => 100 * score = 75 * SCORE_ONE
              /\ a >= 4000 => score = SCORE_ONE
    /\ \A i, j \in NumericMotionCalls :
          ActivityOf(i) > 2000 /\ ActivityOf(i) <= ActivityOf(j)
              => analyses[i].score <= analyses[j].score

\* a sample exactly at the threshold was scored 0, and the next one, with activity
\* 30, was scored 0.75
C19_AtThresholdThenAbove ==
    /\ NumericMotionCalls = {1, 2}
    /\ ActivityOf(1) = 2000
    /\ analyses[1].score = 0
    /\ ActivityOf(2) = 3000
    /\ 100 * analyses[2].score = 75 * SCORE_ONE

\* the analyzer call i was handed nothing, or an input on which the computation fails:
\* a sample whose x is no number, a landmark list without the wrists
EmptyOrMalformed(i) ==
    \/ analyses[i].input = None
    \/ /\ analyses[i].analyzer = "motion"
       /\ "x" \in DOMAIN analyses[i].input
       /\ analyses[i].input.x[1] # "num"
    \/ /\ analyses[i].analyzer = "pose"
       /\ "LEFT_WRIST" \notin DOMAIN analyses[i].input

\* C20: no call of analyze_accelerometer_punch or analyze_pose_punch ends in an
\* exception; for an empty or absent input, and for an input on which the computation
\* fails, the call returns score 0 and empty metrics.
C20_AnalyzersNeverRaise ==
    \A i \in 1..Len(analyses) :
        /\ ~analyses[i].raised
        /\ EmptyOrMalformed(i) =>
              /\ analyses[i].score = 0
              /\ analyses[i].metrics = <<>>

\* both analyzers were handed a malformed input and returned (0, {}), and the pose
\* analyzer had a previous frame stored at the time
C20_BothHandedMalformed ==
    /\ Len(analyses) = 2
    /\ analyses[1].analyzer = "motion"
    /\ analyses[1].input # None
    /\ EmptyOrMalformed(1)
    /\ analyses[2].analyzer = "pose"
    /\ analyses[2].input # None
    /\ EmptyOrMalformed(2)
    /\ prev_landmarks # None
    /\ analyses[2].score = 0

(***************************************************************************)
(* Claims about the two strategies, checked under SpecStrategies (the      *)
(* accelerometer strategy at work) and SpecPose (the pose strategy at      *)
(* work).                                                                  *)
(***************************************************************************)
\* C13: after the cleanup event every strategy reports is_strategy_active() = False
\* and get_current_results() = None: the result it held is cleared.
C13_CleanupClearsResults ==
    [][cleanup_event =>
          /\ ~accel_strategy'.is_active
          /\ accel_strategy'.current_results = None
          /\ ~pose_strategy'.is_active
          /\ pose_strategy'.current_results = None
    ]_vars

\* C14: when the accelerometer strategy's transport could not be brought up (the
\* server thread ended on a failed bind and no server is serving), the accelerometer
\* strategy is inactive.
C14_NoTransportNoAccelerometer ==
    server_thread = "dead" /\ ~serving => ~accel_strategy.is_active

\* C16: a sample whose net activity is above the punch threshold is published by the
\* accelerometer strategy with is_confident = true.
C16_StrongSampleIsConfident ==
    accel_strategy.current_results # None =>
        LET result == accel_strategy.current_results[1]
        IN  result.metrics.magnitude_no_gravity > ACCEL_PUNCH_THRESHOLD
                => result.is_confident

\* the timestamps of a list of samples
Stamps(samples) == [i \in 1..Len(samples) |-> samples[i].timestamp[2]]

\* C17: a process_sensor_queue call on an active strategy hands at most one sample to
\* the analysis, the last one it took off the queue, and that sample's result is the
\* strategy's result afterwards; the other samples it took are in the history buffer
\* and are never analyzed; a call that found the queue empty analyzes nothing and
\* leaves the result as it was.
C17_DrainAnalyzesLastOnly ==
    lastDrain # None /\ lastDrain[1].ran =>
        LET d == lastDrain[1]
            n == Len(d.got)
        IN  /\ Len(d.analyzed) <= 1
            /\ n = 0 => /\ d.analyzed = <<>>
                        /\ accel_strategy.current_results = d.before
            /\ n > 0 => /\ d.analyzed = <<d.got[n]>>
                        /\ accel_strategy.current_results # None
                        /\ accel_strategy.current_results[1].sensor_data = d.got[n]
            /\ \A i \in 1..n :
                  /\ \E k \in 1..Len(sensor_data_buffer) : sensor_data_buffer[k] = d.got[i]
                  /\ i < n => \A k \in 1..Len(analyzed) : analyzed[k] # d.got[i]

\* a call took two or more samples off the queue and analyzed the last of them, after
\* an earlier call had published a result
C17_DrainTookSeveral ==
    /\ lastDrain # None
    /\ lastDrain[1].ran
    /\ Len(lastDrain[1].got) >= 2
    /\ lastDrain[1].before # None
    /\ lastDrain[1].analyzed = <<lastDrain[1].got[Len(lastDrain[1].got)]>>

\* C18: however the server thread's pushes fall between the steps of the main loop's
\* drains, the samples taken off the queue followed by the samples still in it are
\* the samples pushed, each once and in push order; and the samples analyzed are
\* analyzed in push order.
C18_QueueKeepsPushOrder ==
    /\ Stamps(dequeued \o sensor_queue) = [i \in 1..pushNo |-> i]
    /\ \A i, j \in 1..Len(analyzed) :
          i < j => analyzed[i].timestamp[2] < analyzed[j].timestamp[2]

\* a drain took a sample that was pushed after the drain had begun, and two drains
\* have analyzed a sample
C18_PushedDuringDrain ==
    /\ lastDrain # None
    /\ \E i \in 1..Len(lastDrain[1].got) :
          lastDrain[1].got[i].timestamp[2] > lastDrain[1].pushes
    /\ Len(analyzed) >= 2
    /\ pushNo = Len(dequeued)

Compared == comparison[1]

\* the position of the detection matched to the i-th ground-truth event (0: none)
MatchedIdx(i) == Compared.returned.matched_results[i].best_detection_idx

\* the time from the i-th ground-truth event, moved by the offset, to the k-th detection
DiffOf(i, k) ==
    Compared.detections[k].timestamp - (Compared.ground_truth[i].timestamp + Compared.offset)

\* the k-th detection has the hand of the i-th ground-truth event and lies within the
\* window of it
QualifiesFor(i, k) ==
    /\ Compared.detections[k].hand = Compared.ground_truth[i].hand
    /\ DiffOf(i, k) <= Compared.match_window
    /\ DiffOf(i, k) >= -Compared.match_window

\* C21: match_events gives a 1:1 assignment: there is one match result per ground-truth
\* event, in order, holding at most one detection, and no position of the detections
\* list is matched to two ground-truth events.
C21_MatchingIsOneToOne ==
    comparison # None =>
        LET r == Compared.returned.matched_results
        IN  /\ Len(r) = Len(Compared.ground_truth)
            /\ \A i \in 1..Len(r) :
                /\ r[i].ground_truth.timestamp
                      = Compared.ground_truth[i].timestamp + Compared.offset
                /\ r[i].ground_truth.hand = Compared.ground_truth[i].hand
                /\ MatchedIdx(i) \in 0..Len(Compared.detections)
                /\ MatchedIdx(i) = 0 <=> r[i].matched_detection = None
                /\ MatchedIdx(i) # 0 =>
                      r[i].matched_detection = Some(Compared.detections[MatchedIdx(i)])
            /\ \A i, j \in 1..Len(r) :
                i # j /\ MatchedIdx(i) # 0 => MatchedIdx(i) # MatchedIdx(j)

\* two ground-truth events both had one and the same detection within reach; the first
\* took it and the second went without
C21_ContestedDetection ==
    /\ comparison # None
    /\ Len(Compared.ground_truth) = 2
    /\ Len(Compared.detections) = 1
    /\ QualifiesFor(1, 1)
    /\ QualifiesFor(2, 1)
    /\ MatchedIdx(1) = 1
    /\ MatchedIdx(2) = 0

\* C22: every pair match_events matches has one hand label and a detection within the
\* window (its ends included) of the ground-truth timestamp moved by the offset; a
\* detection of the other hand is never matched.  Ground truth (1.0, left) with
\* detections (1.05, left), (1.05, right) and the default window gives TP=1, FP=1, FN=0.
C22_MatchedPairsQualify ==
    comparison # None =>
        /\ \A i \in 1..Len(Compared.ground_truth) :
              MatchedIdx(i) # 0 => QualifiesFor(i, MatchedIdx(i))
        /\ ( /\ Compared.ground_truth = <<PunchEvent(100, "left", "peer")>>
             /\ Compared.detections = <<PunchEvent(105, "left", "detection"),
                                        PunchEvent(105, "right", "detection")>>
             /\ Compared.match_window = DEFAULT_MATCH_WINDOW
             /\ Compared.offset = 0 )
           => /\ Compared.returned.true_positives = 1
              /\ Compared.returned.false_positives = 1
              /\ Compared.returned.false_negatives = 0
              /\ MatchedIdx(1) = 1

\* a detection of the other hand lay nearer in time, and earlier in the list, than the
\* detection that was matched
C22_OtherHandNearer ==
    /\ comparison # None
    /\ Len(Compared.ground_truth) = 1
    /\ Len(Compared.detections) = 2
    /\ Compared.detections[1].hand # Compared.ground_truth[1].hand
    /\ DiffOf(1, 1) = 0
    /\ DiffOf(1, 2) = Compared.match_window
    /\ MatchedIdx(1) = 2
    /\ Compared.returned.false_positives = 1

\* the detections not yet matched when the i-th ground-truth event is processed
UnusedAt(i) == (1..Len(Compared.detections)) \ {MatchedIdx(j) : j \in 1..(i - 1)}

\* the detections match_events may choose from for the i-th ground-truth event
Candidates(i) == {k \in UnusedAt(i) : QualifiesFor(i, k)}

\* C23: for each ground-truth event, in the given order, match_events takes among the
\* unused detections that qualify one with the smallest absolute time difference, the
\* earliest in the list on a tie, and leaves the event unmatched only if none qualifies.
C23_GreedyNearestEarliest ==
    comparison # None =>
        \A i \in 1..Len(Compared.ground_truth) :
            IF Candidates(i) = {}
            THEN MatchedIdx(i) = 0
            ELSE /\ MatchedIdx(i) \in Candidates(i)
                 /\ \A k \in Candidates(i) :
                       \/ Abs(DiffOf(i, MatchedIdx(i))) < Abs(DiffOf(i, k))
                       \/ /\ Abs(DiffOf(i, MatchedIdx(i))) = Abs(DiffOf(i, k))
                          /\ MatchedIdx(i) <= k

\* two detections, one before and one after the event, were equally near it: the first
\* in the list was taken, although it is the later in time
C23_TieTakesEarliestInList ==
    /\ comparison # None
    /\ Len(Compared.ground_truth) = 1
    /\ Candidates(1) = {1, 2}
    /\ DiffOf(1, 1) = Compared.match_window
    /\ DiffOf(1, 2) = -Compared.match_window
    /\ MatchedIdx(1) = 1

\* C24: the counts of match_events account for every event once: TP + FN is the number
\* of ground-truth events, TP + FP the number of detections, FN counts the unmatched
\* ground-truth events and FP the detections never used, which are returned in order;
\* one ground-truth event and no detection gives FN=1, TP=0, FP=0.
C24_CountsAccountForEveryEvent ==
    comparison # None =>
        LET r == Compared.returned
            matched == {i \in 1..Len(Compared.ground_truth) : MatchedIdx(i) # 0}
            used == {MatchedIdx(i) : i \in matched}
            never == (1..Len(Compared.detections)) \ used
        IN  /\ r.true_positives + r.false_negatives = Len(Compared.ground_truth)
            /\ r.true_positives + r.false_positives = Len(Compared.detections)
            /\ r.true_positives = Cardinality(matched)
            /\ r.false_negatives = Len(Compared.ground_truth) - Cardinality(matched)
            /\ r.false_positives = Cardinality(never)
            /\ Len(r.unmatched_detections) = Cardinality(never)
            /\ \A k \in never :
                  r.unmatched_detections[Cardinality({j \in never : j <= k})]
                     = Compared.detections[k]
            /\ (Len(Compared.ground_truth) = 1 /\ Compared.detections = <<>>)
                  => r.false_negatives = 1 /\ r.true_positives = 0 /\ r.false_positives = 0

\* a comparison with a true positive, a false positive and a false negative at once
C24_OneOfEach ==
    /\ comparison # None
    /\ Compared.returned.true_positives = 1
    /\ Compared.returned.false_positives = 1
    /\ Compared.returned.false_negatives = 1

\* the calculate_metrics call just made
Measured == metrics_call[1]

\* C25: for all non-negative counts calculate_metrics raises no division error and
\* returns precision = TP/(TP+FP), recall = TP/(TP+FN) and F1 = 2PR/(P+R), each of
\* them 0 when its denominator is 0.
C25_MetricsAreTheQuotients ==
    metrics_call # None =>
        LET tp == Measured.tp
            fp == Measured.fp
            fn == Measured.fn
            m == Measured.returned
            p == m.precision
            r == m.recall
            f == m.f1_score
            \* P + R as the fraction sum over (p[2] * r[2])
            sum == p[1] * r[2] + r[1] * p[2]
        IN  /\ ~m.raised
            /\ p[2] > 0 /\ r[2] > 0 /\ f[2] > 0
            /\ IF tp + fp = 0 THEN p[1] = 0 ELSE p[1] * (tp + fp) = tp * p[2]
            /\ IF tp + fn = 0 THEN r[1] = 0 ELSE r[1] * (tp + fn) = tp * r[2]
            /\ IF sum = 0 THEN f[1] = 0 ELSE f[1] * sum = 2 * p[1] * r[1] * f[2]

\* one true positive, two false positives and no false negative: precision 1/3,
\* recall 1 and F1 1/2
C25_ThirdOneHalf ==
    /\ metrics_call # None
    /\ Measured.tp = 1 /\ Measured.fp = 2 /\ Measured.fn = 0
    /\ Measured.returned.precision = <<1, 3>>
    /\ Measured.returned.recall = <<1, 1>>
    /\ Measured.returned.f1_score = <<1, 2>>

\* every detection is a ground-truth event moved by the offset of the comparison, hand
\* kept, one detection per event
ShiftedCopy ==
    /\ Len(Compared.detections) = Len(Compared.ground_truth)
    /\ \E f \in [1..Len(Compared.ground_truth) -> 1..Len(Compared.detections)] :
          /\ \A i, j \in DOMAIN f : i # j => f[i] # f[j]
          /\ \A i \in DOMAIN f :
                /\ DiffOf(i, f[i]) = 0
                /\ Compared.detections[f[i]].hand = Compared.ground_truth[i].hand

\* any two ground-truth events are further apart than the window
Sparse ==
    \A i, j \in 1..Len(Compared.ground_truth) :
        i # j => Abs(Compared.ground_truth[i].timestamp
                     - Compared.ground_truth[j].timestamp) > Compared.match_window

\* C26: when every detection is its ground-truth event moved by one constant skew (hand
\* kept, events further apart than the window), match_events run with the offset equal
\* to the skew matches every ground-truth event and the mean signed time difference of
\* the matched pairs is zero.
C26_OffsetCancelsSkew ==
    (comparison # None /\ ShiftedCopy /\ Sparse /\ Compared.ground_truth # <<>>) =>
        /\ Compared.returned.true_positives = Len(Compared.ground_truth)
        /\ Compared.returned.false_negatives = 0
        /\ Compared.returned.false_positives = 0
        /\ avg_diff(Compared.returned.matched_results) = Some(Zero)

\* two events of a log skewed by 0.05 s, the detections listed latest first, compared
\* with an offset of 0.05 s
C26_TwoSkewedEvents ==
    /\ comparison # None
    /\ ShiftedCopy
    /\ Sparse
    /\ Len(Compared.ground_truth) = 2
    /\ Compared.offset = 5
    /\ Compared.detections[1].timestamp > Compared.detections[2].timestamp
    /\ Compared.returned.true_positives = 2

(***************************************************************************)
(* Claims about what detect_punch changes and reads, checked under Spec.   *)
(***************************************************************************)

\* the step is a detect_punch call that returned is_punch
DetectStep(is_punch) == ret'.op = "detect_punch" /\ ret'.is_punch = is_punch

\* C27 as stated: last_punch_time changes only in a detect_punch call that returns
\* is_punch=True, where it is set to the time of the call; a detect_punch call that
\* returns False leaves last_punch_time and the strategy list unchanged.
C27_OnlyPunchMovesLastPunchTime ==
    [][ /\ last_punch_time' # last_punch_time =>
              DetectStep(TRUE) /\ last_punch_time' = now
        /\ DetectStep(TRUE) => last_punch_time' = now /\ strategies' = strategies
        /\ DetectStep(FALSE) => UNCHANGED <<last_punch_time, strategies>> ]_vars

\* C27: last_punch_time changes only in a detect_punch call that returns is_punch=True,
\* where it is set to the time of the call, or in reset_cooldown, which sets it to 0; a
\* detect_punch call that returns False leaves last_punch_time and the strategy list
\* unchanged.
C27_OnlyPunchOrResetMovesLastPunchTime ==
    [][ /\ last_punch_time' # last_punch_time =>
              \/ DetectStep(TRUE) /\ last_punch_time' = now
              \/ reset_cooldown
        /\ DetectStep(TRUE) => last_punch_time' = now /\ strategies' = strategies
        /\ DetectStep(FALSE) => UNCHANGED <<last_punch_time, strategies>> ]_vars

\* a punch was registered, and detect_punch, called again after the cooldown with a
\* strategy registered, has returned False below the thresholds: last_punch_time is
\* still the time of that punch
C27_FalseAfterCooldownKeepsTime ==
    /\ DetectPassedGate
    /\ ~ret.is_punch
    /\ strategies # <<>>
    /\ lastTrue > 0
    /\ last_punch_time = lastTrue
    /\ now >= lastTrue + PUNCH_COOLDOWN

\* C28: detect_punch reads the results of the registered strategies that are active and
\* of no other: the scores, the combined score and the decision are those of the active
\* strategies' results alone, and an active strategy with no result yet counts as
\* score 0.
C28_OnlyActiveStrategiesRead ==
    [][ (DetectStep(TRUE) \/ DetectStep(FALSE)) /\ ~InCooldown(now) =>
          LET m == ret'.metrics[1]
              scoreOf(s) == IF s \in ActiveRegistered /\ current_results[s] # None
                            THEN current_results[s][1].score
                            ELSE 0
              accel_score == scoreOf("AccelerometerStrategy")
              visual_score == scoreOf("PoseStrategy")
              combined_score == accel_score * ACCEL_WEIGHT + visual_score * VISUAL_WEIGHT
          IN  /\ ret'.read = ActiveRegistered
              /\ m.strategy_results = {<<s, current_results[s]>> : s \in ActiveRegistered}
              /\ m.accel_score = accel_score
              /\ m.visual_score = visual_score
              /\ ret'.combined_score = combined_score
              /\ ret'.is_punch = IsPunchDetected(accel_score, visual_score, combined_score)
      ]_vars

\* detect_punch ran past the cooldown with a registered inactive strategy holding a
\* full score and a registered active strategy holding no result: score 0, no punch
C28_InactiveFullActiveEmpty ==
    /\ DetectPassedGate
    /\ \E s \in Registered :
          ~is_active[s] /\ current_results[s] # None /\ current_results[s][1].score = 10
    /\ \E s \in ActiveRegistered : current_results[s] = None
    /\ ret.combined_score = 0
    /\ ~ret.is_punch

\* C29 as stated: whenever detect_punch reads a result from an active strategy, that
\* result was stored after the strategy was activated last: a result stored before a
\* cleanup, or before a failed setup, is never read again.
C29_NoResultSurvivesDeactivation ==
    DetectPassedGate => \A s \in ret.read : ~stale[s]

\* C30 as stated: one analyzed accelerometer sample leads to at most one is_punch=True
\* decision: with no result stored since the last punch, a detect_punch call made after
\* the cooldown has expired does not register a further punch from the accelerometer
\* result it reads.
C30_OnePunchPerSample ==
    [][ ~ ( /\ DetectStep(TRUE)
            /\ "AccelerometerStrategy" \in ret'.read
            /\ current_results["AccelerometerStrategy"] # None
            /\ consumed
            /\ lastTrue >= 0
            /\ now >= lastTrue + PUNCH_COOLDOWN ) ]_vars

(***************************************************************************)
(* Claims about the history buffer, checked under SpecBuffer.              *)
(***************************************************************************)

\* the last n elements of a list (all of it when it has fewer)
LastOf(list, n) == SubSeq(list, Max(1, Len(list) - n + 1), Len(list))

\* C31: the accelerometer history buffer never holds more than SENSOR_BUFFER_SIZE
\* samples, and it holds the samples dequeued last, in dequeue order.
C31_BufferHoldsLastDequeued ==
    /\ Len(sensor_data_buffer) <= SENSOR_BUFFER_SIZE
    /\ sensor_data_buffer = LastOf(dequeued, SENSOR_BUFFER_SIZE)

\* one sample more than the buffer holds has been dequeued: the oldest is gone
C31_OldestEvicted ==
    /\ Len(dequeued) = SENSOR_BUFFER_SIZE + 1
    /\ Len(sensor_data_buffer) = SENSOR_BUFFER_SIZE
    /\ sensor_data_buffer[1] = dequeued[2]
    /\ sensor_data_buffer[SENSOR_BUFFER_SIZE] = dequeued[SENSOR_BUFFER_SIZE + 1]

(***************************************************************************)
(* Claims about the previous frame of the PoseAnalyzer, under SpecAnalyzers*)
(***************************************************************************)

\* the analyzer call made last
LastCall == analyses[Len(analyses)]

\* the call came back with its metrics: the try block was passed
Succeeded(call) == ~call.raised /\ call.metrics # EmptyMetrics

\* C32: the PoseAnalyzer keeps one previous frame: the first call of a fresh analyzer
\* has velocity 0, a call that succeeds stores its own frame and timestamp as the
\* previous ones, and a call that fails leaves the stored ones as they were.
C32_OnePreviousFrame ==
    [][\A landmarks \in PoseInputs :
          CallPoseAnalyzer(landmarks) =>
              /\ (prev_landmarks = None /\ Succeeded(LastCall')
                      => LastCall'.metrics.velocity_score = 0)
              /\ (Succeeded(LastCall')
                      => /\ prev_landmarks' = Some(landmarks)
                         /\ prev_timestamp' = Some(now))
              /\ (~Succeeded(LastCall')
                      => UNCHANGED <<prev_landmarks, prev_timestamp>>)]_vars

\* a frame was stored, time passed, and a list that is too short came after it
C32_FailedCallAfterStoredFrame ==
    /\ Len(analyses) = 2
    /\ analyses[1].analyzer = "pose"
    /\ analyses[1].input = JabFrame
    /\ Succeeded(analyses[1])
    /\ analyses[1].metrics.velocity_score = 0
    /\ analyses[2].analyzer = "pose"
    /\ analyses[2].input = ShortFrame
    /\ ~Succeeded(analyses[2])
    /\ prev_landmarks = Some(JabFrame)
    /\ prev_timestamp # None
    /\ prev_timestamp[1] < now

(***************************************************************************)
(* Claims about the shape of the published results, under SpecPose.        *)
(***************************************************************************)

\* the keys every detection result carries
ResultKeys == {"score", "is_confident", "metrics", "timestamp", "strategy"}

\* the results the two strategies hold now
Published ==
    {s.current_results[1] : s \in {t \in {accel_strategy, pose_strategy} :
                                       t.current_results # None}}

\* C33: every result a strategy publishes, the no-pose result included, carries a
\* boolean is_confident together with the score, the metrics, the timestamp and the
\* source tag.
C33_ResultsCarryIsConfident ==
    \A result \in Published :
        /\ ResultKeys \subseteq DOMAIN result
        /\ result.is_confident \in BOOLEAN

(***************************************************************************)
(* Claims about callbacks that call the manager, under SpecDispatch.       *)
(***************************************************************************)

\* the entries of the event's list when the call starts
EntriesAtStart(event_name) ==
    IF event_name \in DOMAIN hooks
    THEN {hooks[event_name][i] : i \in 1..Len(hooks[event_name])}
    ELSE {}

\* how often a call invoked the entry
TimesInvoked(invocations, entry) ==
    Cardinality({k \in 1..Len(invocations) : invocations[k].reg = entry.reg})

\* C34: trigger_event invokes every handler registered for the event when the call
\* starts exactly once, also when a handler unregisters itself or registers a new
\* handler for the same event while the dispatch runs.
C34_EveryHandlerAtStartOnce ==
    [][eret'.op = "trigger_event"
          => \A entry \in EntriesAtStart(eret'.event) : TimesInvoked(calls', entry) = 1]_vars

(***************************************************************************)
(* Claims about the event names, under SpecEvents.                         *)
(***************************************************************************)

\* the event names that have at least one registered callback
WithCallbacks == {e \in DOMAIN hooks : Len(hooks[e]) > 0}

\* C35: after any sequence of register_hook, unregister_hook, trigger_event,
\* trigger_event_chain, has_listeners and clear_event calls, get_event_names returns
\* exactly the event names that have at least one registered callback.
C35_EventNamesHaveCallbacks == get_event_names = WithCallbacks

(***************************************************************************)
(* Further claims about match_events, under SpecEvaluator.                 *)
(***************************************************************************)

\* the positions of the detections that no ground-truth event was matched to
NeverUsed ==
    {k \in 1..Len(Compared.detections) :
        \A j \in 1..Len(Compared.ground_truth) : MatchedIdx(j) # k}

\* C36: at the end of match_events the matching is maximal: there is no unmatched
\* ground-truth event and never-used detection with the same hand that lie within the
\* window of each other.
C36_MatchingIsMaximal ==
    comparison # None =>
        \A i \in 1..Len(Compared.ground_truth) :
            MatchedIdx(i) = 0 => \A k \in NeverUsed : ~QualifiesFor(i, k)

\* an event went without a detection and a detection without an event: the only
\* detection in reach of the second event had been taken by the first
C36_LeftOversOutOfReach ==
    /\ comparison # None
    /\ Len(Compared.ground_truth) = 2
    /\ Len(Compared.detections) = 2
    /\ MatchedIdx(1) = 2
    /\ MatchedIdx(2) = 0
    /\ QualifiesFor(2, 2)
    /\ NeverUsed = {1}
    /\ Compared.detections[1].hand = Compared.ground_truth[2].hand
    /\ DiffOf(2, 1) > Compared.match_window

(***************************************************************************)
(* Claims about the suggested offset, under SpecReport.                    *)
(***************************************************************************)

\* C37: when the report of a run with offset 0 on uniformly skewed logs suggests an
\* --offset, the run made with that offset has a mean signed time difference of zero
\* over its matched pairs.
C37_SuggestedOffsetCancelsSkew ==
    report # None /\ report[1].rerun # None =>
        LET mean == avg_diff(report[1].rerun[1].matched_results)
        IN  mean # None => mean[1] = Zero

(***************************************************************************)
(* Claims about GameState, under SpecGame.                                 *)
(***************************************************************************)

\* C38: register_punch continues a combo (combo_count + 1, bonus = new combo_count
\* times COMBO_BONUS_POINTS) exactly when a previous punch exists and the new
\* timestamp is less than combo_timeout after it, and otherwise restarts the combo at
\* 1 with bonus 0; combo_count never exceeds punch_count and max_combo_this_game is
\* never below combo_count.
C38_ComboContinuesWithinTimeout ==
    /\ [][gret'.op = "register_punch" =>
            LET timestamp == game'.last_punch_time
            IN  IF /\ game.punch_count > 0
                   /\ timestamp - game.last_punch_time < COMBO_TIMEOUT
                THEN /\ game'.combo_count = game.combo_count + 1
                     /\ gret'.value.combo_bonus = game'.combo_count * COMBO_BONUS_POINTS
                ELSE /\ game'.combo_count = 1
                     /\ gret'.value.combo_bonus = 0]_vars
    /\ [](/\ game.combo_count <= game.punch_count
          /\ game.max_combo_this_game >= game.combo_count)

\* two punches within the timeout made a combo of 2, the third came too late
C38_ComboRestartedAfterTimeout ==
    /\ gret.op = "register_punch"
    /\ game.punch_count = 3
    /\ game.combo_count = 1
    /\ game.max_combo_this_game = 2
    /\ gret.value.combo_bonus = 0
    /\ game.score > 3 * BasePoints(5)

\* C39: is_new_high_score() is True on the game-over screen only when the score of
\* the game strictly exceeded the high score stored before the game ended, and the
\* stored high score never decreases.
C39_NewHighScoreOnlyWhenExceeded ==
    /\ [](game.game_mode = "game_over" /\ is_new_high_score => game.score > high_before)
    /\ [][game'.high_score >= game.high_score]_vars

(***************************************************************************)
(* Claims about the RecordingManager, under SpecRecorder.                  *)
(***************************************************************************)

\* the events whose records are the lines of detections.jsonl in the directory
WrittenEvents(f, dir) ==
    IF dir \in DOMAIN f THEN [i \in 1..Len(f[dir]) |-> f[dir][i].event] ELSE <<>>

\* C40: the detections written for a recording session when stop_recording returns
\* are the punch_detected events received between its start_recording and its
\* stop_recording, each once and in arrival order, and an event received while nothing
\* is recorded is never written.
C40_SessionHoldsItsOwnDetections ==
    /\ [][rret'.op = "stop_recording" /\ rret'.value # None
              => WrittenEvents(files', rret'.value[1]) = received]_vars
    /\ [](\A dir \in DOMAIN files :
              \A i \in 1..Len(files[dir]) : files[dir][i].event \notin dropped)

====
